------------------------------- MODULE Http1 -------------------------------
(***************************************************************************)
(* One end of HTTP/1 connections: the captured pieces of messages, the     *)
(* parser that pairs a response with its request and holds the pair until  *)
(* the body is there (ebpftracer/l7/http1_parser.go, bodies.go), and how   *)
(* the finished calls are numbered, so that client and server give a       *)
(* request the same name (containers/container.go, http_bodies.go).        *)
(*                                                                         *)
(* The connections follow one another on one descriptor.  An outbound end  *)
(* has a parser per connection; an accepting end has one per descriptor,   *)
(* with the timestamp of its connection.  Events are handled in the order  *)
(* they happened (RingMerge), later than they happened, and any of them    *)
(* may be lost.  Only a close that connection_sweep.go made up for a lost  *)
(* one comes at any time.                                                  *)
(***************************************************************************)
EXTENDS Integers, Sequences, FiniteSets, TLC, SequencesExt

CONSTANTS
  Scripts,    \* bound: what is sent on the connections: the pieces of each, in order
  Conns,      \* bound: 1..n, the connections in the order they have the descriptor
  Skipped,    \* the <<conn, call>> that common.HttpFilter does not record
  MaxLost,    \* bound: calls that lose events
  QueueMax,   \* bound: events that wait to be handled
  FlushQueue, \* bodyFlushMaxQueue
  MaxBytes,   \* BodyOptions.MaxBytes, in pieces of data
  Wait,       \* --http-body-wait
  HoldMax     \* http1HoldMax

None == 0

L7Pieces == {"reqHead", "reqEnd", "reqData", "interim", "respHead", "respEnd", "respAsData", "respData"}

\* A piece of a message: the call it is of, what it is, and how its response ends.  A header
\* block comes in two pieces; a request is answered before or after its body was sent,
\* perhaps after an interim (1xx) response; the headers of a response may be reported as
\* data.  A call begins when the one before has ended (no pipelining).
Pieces == [call : Nat \ {0}, kind : {"none", "length", "chunked"},
           what : L7Pieces]

ASSUME ScriptsAssumption == \A s \in Scripts : s \in [Conns -> Seq(Pieces)]
ASSUME Http1TimesAssumption == {MaxLost, QueueMax, FlushQueue, MaxBytes, Wait, HoldMax} \subseteq Nat

VARIABLES
  server,      \* whether this is the accepting end
  bodies,      \* --http-body-capture
  preexisting, \* the connections that were open before the agent started
  script,      \* kernel: what is sent on the connections
  sock,        \* kernel: the connection that has the descriptor; None
  opened,      \* kernel: how many connections there have been
  sent,        \* kernel: how many of its pieces were sent
  queue,       \* the events that wait, oldest first
  lost,        \* the <<conn, call>> of the lost events
  unswept,     \* connections whose close was lost and that the sweep has not found
  known,       \* what is known of each connection's ends: "no", "open", "seen" (its open)
  parser,      \* the parser of each connection, or NoParser
  requests,    \* how many requests were numbered on it
  spans,       \* history: the recorded calls
  dropped      \* history: the <<conn, call>> held by a parser that was thrown away

config  == <<server, bodies, preexisting, script>>
kernel  == <<sock, opened, sent>>
faults  == <<lost, unswept>>
ends    == <<known, parser, requests>>
history == <<spans, dropped>>
vars    == <<config, kernel, queue, faults, ends, history>>

Empty == 0    \* of a header buffer
Junk  == -1   \* a header buffer that does not begin with a start line

NoParser  == [buf |-> Junk]
NoBody    == [n |-> 0, of |-> {}]
NoHold    == [req |-> None]
NewParser == [buf |-> Empty, sbuf |-> Empty, pending |-> None, reqBody |-> NoBody, held |-> NoHold]

\* How many pieces of the first call there are.
FirstCall(pieces) == Cardinality({k \in DOMAIN pieces : pieces[k].call = 1})

Init ==
  /\ server \in BOOLEAN /\ bodies \in BOOLEAN /\ preexisting \in SUBSET {1} /\ script \in Scripts
  /\ sock = None /\ opened = 0
  /\ sent = [c \in Conns |-> IF c \in preexisting THEN FirstCall(script[c]) ELSE 0]
  /\ queue = <<>> /\ lost = {} /\ unswept = {}
  /\ known = [c \in Conns |-> "no"] /\ parser = [c \in Conns |-> NoParser]
  /\ requests = [c \in Conns |-> 0]
  /\ spans = {} /\ dropped = {}

-----------------------------------------------------------------------------
(* The connection, as the kernel side reports it. *)

Open0(c)  == [conn |-> c, call |-> 0, what |-> "open", kind |-> "none"]
Close0(c) == [conn |-> c, call |-> 0, what |-> "close", kind |-> "none"]
Post(e) == Len(queue) < QueueMax /\ queue' = Append(queue, e) /\ UNCHANGED faults
Lose(e) == /\ lost' = lost \union {<<e.conn, e.call>>}
           /\ Cardinality(lost') <= MaxLost
           /\ unswept' = IF e.what = "close" THEN unswept \union {e.conn} ELSE unswept
           /\ UNCHANGED queue

Open(c) ==
  /\ sock = None /\ c = opened + 1
  /\ sock' = c /\ opened' = c
  /\ Post(Open0(c)) \/ Lose(Open0(c))
  /\ UNCHANGED <<config, sent, ends, history>>

Send(c) ==
  /\ sock = c /\ sent[c] < Len(script[c])
  /\ sent' = [sent EXCEPT ![c] = @ + 1]
  /\ LET e == [conn |-> c] @@ script[c][sent[c] + 1] IN Post(e) \/ Lose(e)
  /\ UNCHANGED <<config, sock, opened, ends, history>>

CloseSocket(c) ==
  /\ sock = c
  /\ sock' = None
  /\ Post(Close0(c)) \/ Lose(Close0(c))
  /\ UNCHANGED <<config, opened, sent, ends, history>>

\* connection_sweep.go finds that the connection is gone and makes its close up.
Sweep(c) ==
  /\ c \in unswept /\ Len(queue) < QueueMax
  /\ unswept' = unswept \ {c}
  /\ queue' = Append(queue, Close0(c))
  /\ UNCHANGED <<config, kernel, lost, ends, history>>

-----------------------------------------------------------------------------
(* The parser.  A result is a request (its call, None when there is none) with *)
(* the call whose response it got and the calls its bodies are of.             *)

Holds(p) == p # NoParser /\ p.held # NoHold

Add(body, call) ==
  IF body.n < MaxBytes THEN [n |-> body.n + 1, of |-> body.of \union {call}] ELSE body

Finish(x) == [req |-> x.req, resp |-> x.resp, of |-> x.reqBody.of \union x.body.of]

ReleaseResponse(p) == IF Holds(p) THEN <<Finish(p.held)>> ELSE <<>>

Result(p, out) == [parser |-> p, out |-> out]

\* Mutant: the collector of request bodies is used again for the next request.
ReusesCollector(p, line) ==
  IF line = Junk THEN Result([p EXCEPT !.buf = Empty], <<>>)
  ELSE Result([p EXCEPT !.buf = Empty, !.pending = line, !.held = NoHold], ReleaseResponse(p))

\* MethodHttpClientHeaders whose block is complete: line is the call its first line is of.
\* The request replaces one that still waits, and ends the response that is held.
RequestHeaders(p, line) ==
  IF line = Junk THEN Result([p EXCEPT !.buf = Empty], <<>>)
  ELSE Result([p EXCEPT !.buf = Empty, !.pending = line, !.reqBody = NoBody, !.held = NoHold],
              ReleaseResponse(p))

\* MethodHttpServerHeaders whose block is complete.  A released response is not kept: it
\* only takes request data that is dropped anyway.
ResponseHeaders(p, line, kind) ==
  LET q  == [p EXCEPT !.sbuf = Empty, !.held = NoHold]
      ex == [req |-> p.pending, resp |-> line, kind |-> kind, reqBody |-> p.reqBody,
             body |-> NoBody, age |-> 0, quiet |-> 0]
      answered == [q EXCEPT !.pending = None]
  IN IF line = Junk \/ p.pending = None THEN Result(q, ReleaseResponse(p))
     ELSE IF ~bodies \/ kind = "none" THEN Result(answered, ReleaseResponse(p) \o <<Finish(ex)>>)
     ELSE Result([answered EXCEPT !.held = ex], ReleaseResponse(p))

RequestData(p, call) ==
  IF bodies /\ p.pending # None THEN [p EXCEPT !.reqBody = Add(@, call)]
  ELSE IF bodies /\ Holds(p) THEN [p EXCEPT !.held.reqBody = Add(@, call)]
  ELSE p

\* The end of a chunked body is not told; a body of known length is complete with its last
\* piece (two of them), or once no more of it is kept.
ResponseData(p, call) ==
  IF ~Holds(p) THEN Result(p, <<>>)
  ELSE LET x == [p.held EXCEPT !.body = Add(@, call), !.quiet = 0]
       IN IF x.kind = "length" /\ (x.body.n >= 2 \/ x.body.n >= MaxBytes)
          THEN Result([p EXCEPT !.held = NoHold], <<Finish(x)>>)
          ELSE Result([p EXCEPT !.held = x], <<>>)

\* recoverResponseFromData: data that is the response the waiting request has not got.
ResponseAsData(p, call, kind) ==
  IF p.pending # None /\ p.sbuf = Empty /\ ~Holds(p) THEN ResponseHeaders(p, call, kind)
  ELSE ResponseData(p, call)

FirstLine(buf, call) == IF buf = Empty THEN call ELSE buf

\* ParseAt: what the parser may do with an event.  The block that a header piece is appended
\* to may reach http1CaptureMax and then counts as complete.
ParseAt(p, e) ==
  CASE e.what = "reqHead"  ->
         {Result([p EXCEPT !.buf = FirstLine(@, e.call)], <<>>)}
           \union IF p.buf = Empty THEN {} ELSE {RequestHeaders(p, p.buf)}
    [] e.what = "reqEnd"   -> {RequestHeaders(p, FirstLine(p.buf, Junk))}
    [] e.what = "reqData"  -> {Result(RequestData(p, e.call), <<>>)}
    [] e.what = "interim"  -> {ResponseHeaders(p, FirstLine(p.sbuf, e.call), "none")}
    [] e.what = "respHead" ->
         {Result([p EXCEPT !.sbuf = FirstLine(@, e.call)], <<>>)}
           \union IF p.sbuf = Empty THEN {} ELSE {ResponseHeaders(p, p.sbuf, e.kind)}
    [] e.what = "respEnd"  -> {ResponseHeaders(p, FirstLine(p.sbuf, Junk), e.kind)}
    [] e.what = "respAsData" -> {ResponseAsData(p, e.call, e.kind)}
    [] e.what = "respData" -> {ResponseData(p, e.call)}

\* Flush: the response is released once it has been quiet, or held, for long enough.
Flush(p) ==
  IF Holds(p) /\ (p.held.quiet >= Wait \/ p.held.age >= HoldMax)
  THEN Result([p EXCEPT !.held = NoHold], <<Finish(p.held)>>)
  ELSE Result(p, <<>>)

-----------------------------------------------------------------------------
(* The event loop. *)

\* The calls that are lost when the parsers of S are thrown away.
HeldBy(S) == {<<d, parser[d].held.req>> : d \in {x \in S : Holds(parser[x])}}

\* The ends of a connection stand for the connection: they are not used again within the
\* time a key is looked up.
RequestKey(c, number) == <<c, number>>
NoKey == <<>>

OutboundRequestKey(c, number) == IF c \in preexisting THEN NoKey ELSE RequestKey(c, number)
InboundRequestKey(c, number)  == IF known[c] # "seen" THEN NoKey ELSE RequestKey(c, number)

\* The recorded calls among the results of a parser, numbered from n on.  A call is numbered
\* whether or not it is recorded.
Recorded(c, n, out) ==
  {[conn |-> c, req |-> out[k].req, resp |-> out[k].resp, of |-> out[k].of,
    key |-> IF server THEN InboundRequestKey(c, n + k) ELSE OutboundRequestKey(c, n + k)] :
      k \in {x \in DOMAIN out : <<c, out[x].req>> \notin Skipped}}

\* observeInboundHttp1, observeOutboundHttp1.
Observe(c, n, res) ==
  /\ requests' = [requests EXCEPT ![c] = n + Len(res.out)]
  /\ spans' = spans \union Recorded(c, n, res.out)

Handle(c, whats) ==
  /\ queue # <<>> /\ Head(queue).conn = c /\ Head(queue).what \in whats
  /\ queue' = Tail(queue)

\* onInboundConnectionOpen, onConnectionOpen.
OnOpen(c) ==
  /\ Handle(c, {"open"})
  /\ known' = [d \in Conns |-> IF d = c THEN IF c \in preexisting THEN "open" ELSE "seen"
                                ELSE IF server THEN "no" ELSE known[d]]
  /\ UNCHANGED <<config, kernel, faults, parser, requests, history>>

\* An outbound connection that is closed is forgotten later (Connections).
OnCloseOutbound(c) ==
  /\ Handle(c, {"close"}) /\ ~server
  /\ UNCHANGED <<config, kernel, faults, ends, history>>

\* onConnectionClose of an accepted connection: the call it holds is recorded if the
\* close is of its connection; all that is kept for the descriptor goes, whichever
\* connection it is of.
OnCloseInbound(c) ==
  LET res == Result(NoParser, ReleaseResponse(parser[c])) IN
  /\ Handle(c, {"close"}) /\ server
  /\ Observe(c, requests[c], res)
  /\ dropped' = dropped \union HeldBy(Conns \ {c})
  /\ parser' = [d \in Conns |-> NoParser]
  /\ known' = [d \in Conns |-> "no"]
  /\ UNCHANGED <<config, kernel, faults>>

\* observeInboundL7: a parser of an earlier connection is replaced.
OnL7Inbound(c) ==
  LET fresh == parser[c] = NoParser
      p == IF fresh THEN NewParser ELSE parser[c] IN
  /\ Handle(c, L7Pieces) /\ server
  /\ \E res \in ParseAt(p, Head(queue)) :
       /\ parser' = [d \in Conns |-> IF d = c THEN res.parser ELSE NoParser]
       /\ Observe(c, IF fresh THEN 0 ELSE requests[c], res)
  /\ dropped' = dropped \union HeldBy(Conns \ {c})
  /\ UNCHANGED <<config, kernel, faults, known>>

\* The events of an outbound connection that is not known are dropped.
OnL7Outbound(c) ==
  /\ Handle(c, L7Pieces) /\ ~server
  /\ \/ known[c] = "no" /\ UNCHANGED <<parser, requests, spans>>
     \/ /\ known[c] # "no"
        /\ \E res \in ParseAt(IF parser[c] = NoParser THEN NewParser ELSE parser[c], Head(queue)) :
             /\ parser' = [parser EXCEPT ![c] = res.parser]
             /\ Observe(c, requests[c], res)
  /\ UNCHANGED <<config, kernel, faults, known, dropped>>

\* Mutant: the parsers of accepted connections are not visited.
FlushOutboundOnly(c) ==
  /\ ~server /\ Len(queue) <= FlushQueue
  /\ LET res == Flush(parser[c]) IN
       /\ parser' = [parser EXCEPT ![c] = res.parser]
       /\ Observe(c, requests[c], res)
  /\ UNCHANGED <<config, kernel, queue, faults, known, dropped>>

\* flushHttpBodies, for one connection.
FlushHttpBodies(c) ==
  /\ Len(queue) <= FlushQueue
  /\ LET res == Flush(parser[c]) IN
       /\ parser' = [parser EXCEPT ![c] = res.parser]
       /\ Observe(c, requests[c], res)
  /\ UNCHANGED <<config, kernel, queue, faults, known, dropped>>

\* Mutant: the ends of the connection are kept.
GcKeepsEnds ==
  /\ server /\ sock = None
  /\ dropped' = dropped \union HeldBy(Conns)
  /\ parser' = [d \in Conns |-> NoParser]
  /\ UNCHANGED <<config, kernel, queue, faults, known, requests, spans>>

\* Container.gc, in a goroutine of its own: the descriptor is not a socket now.
Gc ==
  /\ server /\ sock = None
  /\ dropped' = dropped \union HeldBy(Conns)
  /\ parser' = [d \in Conns |-> NoParser]
  /\ known' = [d \in Conns |-> "no"]
  /\ UNCHANGED <<config, kernel, queue, faults, requests, spans>>

Older(age, top) == IF age < top THEN age + 1 ELSE age

Tick ==
  /\ parser' = [c \in Conns |-> IF Holds(parser[c])
                                THEN [parser[c] EXCEPT !.held.age = Older(@, HoldMax),
                                                       !.held.quiet = Older(@, Wait)]
                                ELSE parser[c]]
  /\ UNCHANGED <<config, kernel, queue, faults, known, requests, history>>

OnEvent(c) == OnOpen(c) \/ OnCloseOutbound(c) \/ OnCloseInbound(c) \/ OnL7Inbound(c) \/ OnL7Outbound(c)

Next ==
  \/ \E c \in Conns : \/ Open(c) \/ Send(c) \/ CloseSocket(c) \/ Sweep(c)
                      \/ OnEvent(c) \/ FlushHttpBodies(c)
  \/ Gc \/ Tick

\* The event loop and its ticker run; the peers need not send anything.
Fairness ==
  /\ WF_vars(\E c \in Conns : OnEvent(c)) /\ WF_vars(Tick)
  /\ \A c \in Conns : WF_vars(FlushHttpBodies(c))

Spec == Init /\ [][Next]_vars /\ Fairness
-----------------------------------------------------------------------------
(* Properties *)

\* The calls first..last of a connection lost none of their events.
Whole(conn, first, last) == \A call \in first..last : <<conn, call>> \notin lost

\* A call that lost none of its events, nor did the calls before and after it, is never recorded
\* but with its own response and with bodies of its own only: "with one request in flight a lost
\* response costs one span instead of shifting every later response onto an earlier request" (the
\* comment of Http1Parser), also when a piece of a header block is lost and the next block is
\* appended to what is there.  No call is recorded twice, whatever is lost.
LossIsLocal ==
  /\ \A s \in spans : Whole(s.conn, s.resp - 1, s.resp + 1) => s.req = s.resp /\ s.of \subseteq {s.req}
  /\ \A s, t \in spans : s.conn = t.conn /\ s.req = t.req => s = t

\* A call that has a name is named by its position on the connection, counted from its open,
\* when nothing of the connection was lost: client and server name it alike (RequestKey),
\* whatever is filtered, held back, collected by gc while events wait, or swept late.
NamedByPosition ==
  \A s \in spans :
    s.key # NoKey /\ (\A call \in 0..s.resp : <<s.conn, call>> \notin lost) => s.key = <<s.conn, s.req>>

\* A request that met its response is recorded once it is no longer held for its bodies, unless its
\* parser was thrown away with it (by gc after the descriptor was closed, or by the close or the
\* first event of another connection); and nothing is held for ever (flushHttpBodies).
PairedIsRecorded ==
  /\ [][\A c \in Conns : Holds(parser[c]) /\ ~(Holds(parser'[c]) /\ parser'[c].held.req = parser[c].held.req) =>
          \/ <<c, parser[c].held.req>> \in dropped' \union Skipped
          \/ \E s \in spans' : s.conn = c /\ s.req = parser[c].held.req]_vars
  /\ []<>(\A c \in Conns : ~Holds(parser[c]))
=============================================================================
