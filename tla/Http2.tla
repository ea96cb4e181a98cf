------------------------------- MODULE Http2 -------------------------------
(***************************************************************************)
(* The HTTP/2 parser of one connection (ebpftracer/l7/http2.go).  The      *)
(* kernel side reports the two directions as frames whose declared length  *)
(* is what it captured, cut into events anywhere: in a frame header, in a  *)
(* HEADERS frame (which is then reassembled) and in a DATA frame (whose    *)
(* bytes are taken as they come).  A frame longer than http2ReassemblyMax  *)
(* is not reassembled, though the kernel side reports its rest all the     *)
(* same.  A request is finished by its response headers or, with           *)
(* --http-body-capture, when its response stream ends or has been quiet    *)
(* for long enough.                                                        *)
(*                                                                         *)
(* Bytes are abstracted to units that know the frame they are of; a frame  *)
(* header is HeaderLen of them.  A unit that is not the first of its frame *)
(* but is taken for the start of one makes the parser garbled; what it     *)
(* makes of such bytes is not determined, and no event follows.            *)
(***************************************************************************)
EXTENDS Integers, Sequences, FiniteSets, SequencesExt

CONSTANTS
  Streams,   \* bound: the streams
  Scripts,   \* bound: the frames that are sent in each direction
  HeaderLen, \* http2FrameHeaderLength
  ReassemblyMax, \* http2ReassemblyMax
  MaxEvent,  \* bound: units of one event
  MaxBytes,  \* BodyOptions.MaxBytes
  Wait,      \* --http-body-wait
  HoldMax,   \* http2HoldMax
  MaxPauses  \* bound: pauses longer than http2DecoderGcInterval

None == 0
Dirs == {"client", "server"}

\* A frame: field is the :method or the :status of a HEADERS frame ("none": it has neither, as
\* trailers), end is END_STREAM.
Frames == [stream : Streams, type : {"headers", "data", "other"}, len : Nat, end : BOOLEAN,
           field : {"none", "method", "interim", "final"}]

ASSUME Http2Assumption ==
  /\ Scripts \subseteq [Dirs -> Seq(Frames)] /\ None \notin Streams
  /\ {HeaderLen, ReassemblyMax, MaxEvent, MaxBytes, Wait, HoldMax, MaxPauses} \subseteq Nat /\ HeaderLen > 0

VARIABLES
  bodies,  \* BodyOptions.Enabled
  script,  \* the frames that are sent
  sent,    \* how many units of each direction were reported
  header,  \* clientHeader, serverHeader: units of a cut frame header
  partial, \* clientPartial, serverPartial: the frame that is reassembled and its units so far
  data,    \* clientData, serverData: the DATA frame whose rest is due
  active,  \* activeRequests
  held,    \* the streams that wait for their end
  gc,      \* whether http2DecoderGcInterval has passed since lastGcTime ("first": it is zero)
  pauses,  \* how many such pauses there were
  overlong, \* history: the directions in which a frame longer than ReassemblyMax was cut
  garbled, \* history: something else was taken for a frame header
  out      \* history: the finished requests of each stream

parserVars == <<header, partial, data, active, held, gc>>
vars == <<bodies, script, sent, parserVars, pauses, overlong, garbled, out>>

NoFrame   == [f |-> None]
NoRequest == [at |-> None]
NewStream == [at |-> 1, method |-> FALSE, reqBody |-> <<>>, respBody |-> <<>>, status |-> "none",
              haveResp |-> FALSE, respEnded |-> FALSE, quiet |-> 0, age |-> 0, old |-> FALSE]

Init ==
  /\ bodies \in BOOLEAN /\ script \in Scripts
  /\ sent = [d \in Dirs |-> 0]
  /\ header = [d \in Dirs |-> <<>>] /\ partial = [d \in Dirs |-> NoFrame] /\ data = [d \in Dirs |-> NoFrame]
  /\ active = [s \in Streams |-> NoRequest] /\ held = {}
  /\ gc = "first" /\ pauses = 0
  /\ overlong = {} /\ garbled = FALSE /\ out = [s \in Streams |-> <<>>]

-----------------------------------------------------------------------------
(* The parser of one event.  Its local state p: the streams, the continuation  *)
(* of the direction and what the frames of the event were.                     *)

Size(frame) == HeaderLen + frame.len

Take(seq, n) == IF n < Len(seq) THEN SubSeq(seq, 1, n) ELSE seq

Live(p, s) == s # None /\ p.active[s] # NoRequest

\* appendData: bytes of a DATA frame that was the stream's when the frame began.
AppendData(p, d, s, units) ==
  IF ~Live(p, s) THEN p
  ELSE IF d = "client" THEN [p EXCEPT !.active[s].reqBody = Take(@ \o units, MaxBytes)]
  ELSE [p EXCEPT !.active[s].respBody = Take(@ \o units, MaxBytes),
                 !.active[s].quiet = IF units = <<>> THEN @ ELSE 0]

\* finishData: a DATA frame is complete.
FinishData(p, d, s, frame) ==
  IF s = None \/ ~frame.end \/ d # "server" THEN p
  ELSE [p EXCEPT !.active[s] = IF Live(p, s) THEN [@ EXCEPT !.respEnded = TRUE] ELSE @,
                 !.touched = @ \union {s}]

\* handleHeaders, decodeHeaders.
HandleHeaders(p, d, frame) ==
  LET s == frame.stream IN
  IF frame.type # "headers" THEN p
  ELSE IF d = "client"
  THEN LET r == IF Live(p, s) THEN p.active[s] ELSE NewStream
       IN [p EXCEPT !.active[s] = [r EXCEPT !.method = @ \/ frame.field = "method"]]
  ELSE LET q == [p EXCEPT !.statuses[s] = IF frame.field # "none" \/ @ = "absent" THEN frame.field ELSE @]
       IN IF bodies /\ frame.end /\ Live(p, s)
          THEN [q EXCEPT !.active[s].respEnded = TRUE, !.touched = @ \union {s}]
          ELSE q

RECURSIVE FrameLoop(_, _, _)
\* The loop over the frames of an event; rest begins with a frame header.  Of a cut frame that
\* is too long to be reassembled nothing is kept.
FrameLoop(p, d, rest) ==
  IF Len(rest) < HeaderLen THEN [p EXCEPT !.header = rest]
  ELSE IF Head(rest).k # 1 THEN [p EXCEPT !.garbled = TRUE]
  ELSE
    LET frame == script[d][Head(rest).f]
        have  == SubSeq(rest, HeaderLen + 1, Len(rest))
        after == SubSeq(rest, Size(frame) + 1, Len(rest))
    IN IF bodies /\ frame.type = "data"
       THEN LET s == IF Live(p, frame.stream) THEN frame.stream ELSE None
                q == AppendData(p, d, s, Take(have, frame.len))
            IN IF Len(have) < frame.len
               THEN [q EXCEPT !.data = [f |-> Head(rest).f, stream |-> s, remaining |-> frame.len - Len(have)]]
               ELSE FrameLoop(FinishData(q, d, s, frame), d, after)
       ELSE IF Len(have) < frame.len
       THEN IF frame.len <= ReassemblyMax THEN [p EXCEPT !.partial = [f |-> Head(rest).f, n |-> Len(have)]]
            ELSE [p EXCEPT !.overlong = TRUE]
       ELSE FrameLoop(HandleHeaders(p, d, frame), d, after)

\* The rest of a DATA frame that the previous event began.
RestOfData(p, d, units) ==
  IF p.data = NoFrame THEN p
  ELSE LET n == IF p.data.remaining < Len(units) THEN p.data.remaining ELSE Len(units)
           q == AppendData(p, d, p.data.stream, SubSeq(units, 1, n))
       IN IF n < p.data.remaining THEN [q EXCEPT !.data.remaining = @ - n]
          ELSE [FinishData(q, d, p.data.stream, script[d][p.data.f]) EXCEPT !.data = NoFrame]

\* Mutant: the units of a cut frame header are dropped.
ParseFramesDropsHeader(p, d, units) ==
  LET q    == RestOfData(p, d, units)
      used == IF p.data = NoFrame THEN 0 ELSE p.data.remaining
      rest == SubSeq(units, used + 1, Len(units))
  IN IF q.partial = NoFrame THEN FrameLoop([q EXCEPT !.header = <<>>], d, rest)
     ELSE LET frame == script[d][q.partial.f]
              need  == frame.len - q.partial.n
          IN IF need > Len(rest) THEN [q EXCEPT !.partial.n = @ + Len(rest), !.early = TRUE]
             ELSE FrameLoop(HandleHeaders([q EXCEPT !.partial = NoFrame], d, frame), d,
                            SubSeq(rest, need + 1, Len(rest)))

\* ParseAt up to the end of the payload: the rest of a DATA frame, the start of a frame
\* header from the event before, the rest of a frame that is reassembled (which may not
\* be complete yet, and then the event ends early), and whole frames.
ParseFrames(p, d, units) ==
  LET q    == RestOfData(p, d, units)
      used == IF p.data = NoFrame THEN 0 ELSE p.data.remaining
      rest == SubSeq(units, used + 1, Len(units))
  IN IF q.partial = NoFrame THEN FrameLoop([q EXCEPT !.header = <<>>], d, q.header \o rest)
     ELSE LET frame == script[d][q.partial.f]
              need  == frame.len - q.partial.n
          IN IF need > Len(rest) THEN [q EXCEPT !.partial.n = @ + Len(rest), !.early = TRUE]
             ELSE FrameLoop(HandleHeaders([q EXCEPT !.partial = NoFrame], d, frame), d,
                            SubSeq(rest, need + 1, Len(rest)))

-----------------------------------------------------------------------------
(* What an event finishes. *)

Request(r, how) == [method |-> r.method, status |-> r.status, reqBody |-> r.reqBody, respBody |-> r.respBody, how |-> how]

Answered(p) == {s \in Streams : p.statuses[s] # "absent" /\ Live(p, s)}

\* The streams whose final response this event brought (100-continue and the like are not it).
FinalResponses(p) == {s \in Answered(p) : ~p.active[s].haveResp /\ p.statuses[s] # "interim"}

\* completeStreams: the final responses are held; the streams that have ended are finished.
CompleteStreams(p) ==
  LET new   == FinalResponses(p)
      resp  == [s \in Streams |-> IF s \in new
                  THEN [p.active[s] EXCEPT !.haveResp = TRUE, !.status = p.statuses[s], !.quiet = 0, !.age = 0]
                  ELSE p.active[s]]
      ended == {s \in p.touched \union new : resp[s] # NoRequest /\ resp[s].haveResp /\ resp[s].respEnded}
  IN [done |-> ended, streams |-> resp, held |-> (held \union new) \ ended, how |-> "ended"]

\* Without bodies a request is finished by the first response headers of its stream.
CompletePlain(p) ==
  [done |-> Answered(p), held |-> {}, how |-> "headers",
   streams |-> [s \in Streams |-> IF s \in Answered(p) THEN [p.active[s] EXCEPT !.status = p.statuses[s]] ELSE p.active[s]]]

Complete(p) ==
  IF p.early THEN [done |-> {}, streams |-> p.active, held |-> held, how |-> "ended"]
  ELSE IF bodies THEN CompleteStreams(p) ELSE CompletePlain(p)

\* gc of the parser, at the end of an event.
Expired(p, streams) == IF p.early \/ gc # "due" THEN {} ELSE {s \in Streams : streams[s] # NoRequest /\ streams[s].old}

Units(d) == FlattenSeq([f \in DOMAIN script[d] |-> [k \in 1..Size(script[d][f]) |-> [f |-> f, k |-> k]]])

\* A server answers a stream only after its request headers.
Causal(units) ==
  \A i \in DOMAIN units : LET s == script["server"][units[i].f].stream IN
    \E f \in DOMAIN script["client"] :
      /\ script["client"][f].stream = s
      /\ \A k \in DOMAIN Units("client") : Units("client")[k].f = f => k <= sent["client"]

\* A DATA frame refers to its stream as it was; one that was dropped gets the rest for nothing.
Orphaned(frame, dropped) ==
  IF frame # NoFrame /\ frame.stream \in dropped THEN [frame EXCEPT !.stream = None] ELSE frame

\* ParseAt: the next n units of a direction.
Parse(d, n) ==
  LET units == SubSeq(Units(d), sent[d] + 1, sent[d] + n)
      p == ParseFrames([active |-> active, header |-> header[d], partial |-> partial[d], data |-> data[d],
                        statuses |-> [s \in Streams |-> "absent"], touched |-> {}, early |-> FALSE,
                        overlong |-> FALSE, garbled |-> FALSE], d, units)
      c == Complete(p)
      gone == Expired(p, c.streams) \ c.done
      dropped == c.done \union gone
  IN
  /\ ~garbled /\ sent[d] + n <= Len(Units(d)) /\ (d = "server" => Causal(units))
  /\ sent' = [sent EXCEPT ![d] = @ + n]
  /\ header' = [header EXCEPT ![d] = p.header] /\ partial' = [partial EXCEPT ![d] = p.partial]
  /\ data' = [e \in Dirs |-> Orphaned(IF e = d THEN p.data ELSE data[e], dropped)]
  /\ overlong' = IF p.overlong THEN overlong \union {d} ELSE overlong
  /\ garbled' = p.garbled
  /\ active' = [s \in Streams |-> IF s \in dropped THEN NoRequest ELSE c.streams[s]]
  /\ held' = c.held \ gone
  /\ out' = [s \in Streams |-> IF s \in c.done THEN Append(out[s], Request(c.streams[s], c.how)) ELSE out[s]]
  /\ gc' = IF p.early \/ gc = "no" THEN gc ELSE "no"
  /\ UNCHANGED <<bodies, script, pauses>>

\* Mutant: a stream is flushed in the middle of one of its DATA frames.
FlushableAny == {s \in held : active[s].quiet >= Wait \/ active[s].age >= HoldMax}

\* Mutant: no stream is flushed in the middle of a DATA frame of any of them.
FlushableBetween == {s \in held : data["server"] = NoFrame /\ (active[s].quiet >= Wait \/ active[s].age >= HoldMax)}

\* Flush: quiet or held for long enough, and not in the middle of a DATA frame.
Flushable == {s \in held : /\ data["server"] = NoFrame \/ data["server"].stream # s
                           /\ active[s].quiet >= Wait \/ active[s].age >= HoldMax}

Flush ==
  /\ active' = [s \in Streams |-> IF s \in Flushable THEN NoRequest ELSE active[s]]
  /\ held' = held \ Flushable
  /\ data' = [d \in Dirs |-> Orphaned(data[d], Flushable)]
  /\ out' = [s \in Streams |-> IF s \in Flushable THEN Append(out[s], Request(active[s], "flushed")) ELSE out[s]]
  /\ UNCHANGED <<bodies, script, sent, header, partial, gc, pauses, overlong, garbled>>

Older(age, top) == IF age < top THEN age + 1 ELSE age

Tick ==
  /\ active' = [s \in Streams |-> IF s \in held
                  THEN [active[s] EXCEPT !.quiet = Older(@, Wait), !.age = Older(@, HoldMax)] ELSE active[s]]
  /\ UNCHANGED <<bodies, script, sent, header, partial, data, held, gc, pauses, overlong, garbled, out>>

\* Ten minutes without an event.
Pause ==
  /\ pauses < MaxPauses /\ gc # "first"
  /\ pauses' = pauses + 1 /\ gc' = "due"
  /\ active' = [s \in Streams |-> IF active[s] = NoRequest THEN active[s] ELSE [active[s] EXCEPT !.old = TRUE]]
  /\ UNCHANGED <<bodies, script, sent, header, partial, data, held, overlong, garbled, out>>

Next == (\E d \in Dirs, n \in 1..MaxEvent : Parse(d, n)) \/ Flush \/ Tick \/ Pause

\* The ticker of the event loop runs; the peers need not send anything more.
Spec == Init /\ [][Next]_vars /\ WF_vars(Flush) /\ WF_vars(Tick)
-----------------------------------------------------------------------------
(* Properties *)

\* The DATA of a stream in a direction, as it was sent.
Body(d, s) == SelectSeq(Units(d), LAMBDA u : /\ script[d][u.f].stream = s /\ script[d][u.f].type = "data"
                                             /\ u.k > HeaderLen)

\* However a direction is cut into events, the parser is in step with its frames: as long as no
\* frame longer than http2ReassemblyMax was cut ("a frame whose declared length is within that
\* bound can arrive split across several messages"), it never takes other bytes for a frame
\* header, at most one continuation (a piece of a frame header, a frame that is reassembled, a
\* DATA frame) is open at a time, and what is due of it is what remains to be sent of that frame.
\* A cut frame that is too long does not disturb the other direction.
InStep ==
  /\ garbled => overlong # {}
  /\ \A d \in Dirs \ overlong :
       LET units == Units(d)
           done  == {f \in DOMAIN script[d] : \A k \in DOMAIN units : units[k].f = f => k <= sent[d]}
           begun == sent[d] - Len(SelectSeq(units, LAMBDA u : u.f \in done))
           next  == Cardinality(done) + 1
       IN /\ header[d] # <<>> => partial[d] = NoFrame /\ data[d] = NoFrame /\ Len(header[d]) = begun
          /\ partial[d] # NoFrame => /\ data[d] = NoFrame /\ partial[d].f = next
                                     /\ HeaderLen + partial[d].n = begun
          /\ data[d] # NoFrame => data[d].f = next /\ data[d].remaining = Size(script[d][next]) - begun
          /\ begun > 0 => header[d] # <<>> \/ partial[d] # NoFrame \/ data[d] # NoFrame

\* A stream yields one request with a method at most, and one without only if the client sent
\* trailers (which begin a new request when the stream's own was finished or expired before
\* them).  With bodies, the request with a method has the final response of the stream, never an
\* interim one (http2_test.go), and bodies that are the beginning of what was sent on the stream:
\* all of it (up to MaxBytes) when the stream had ended, and never a DATA frame in part
\* (TestHttp2FlushWaitsForTheRestOfADataFrame).  This is up to where a frame that is too long to
\* be reassembled was cut, and the parser took its rest for frames.
OnceWithItsBody ==
  \A s \in Streams :
    LET own == SelectSeq(out[s], LAMBDA r : r.method) IN
    /\ Len(own) <= 1
    /\ Len(out[s]) > Len(own) => \E f \in ToSet(script["client"]) :
                                   f.stream = s /\ f.type = "headers" /\ f.field = "none"
    /\ bodies => \A r \in ToSet(own) :
         /\ r.status = "final"
         /\ IsPrefix(r.respBody, Body("server", s)) /\ IsPrefix(r.reqBody, Body("client", s))
         /\ r.how = "ended" => r.respBody = Take(Body("server", s), MaxBytes)
         /\ Len(r.respBody) < MaxBytes =>
              \A u \in ToSet(r.respBody) : \A v \in ToSet(Body("server", s)) : v.f = u.f => v \in ToSet(r.respBody)

\* A response that is held is released, or the rest of one of its DATA frames is still due.
HeldIsReleased ==
  \A s \in Streams : []<>(s \notin held \/ (data["server"] # NoFrame /\ data["server"].stream = s))
=============================================================================
