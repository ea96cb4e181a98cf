------------------------------ MODULE MCHttp2 ------------------------------
(* The instance of Http2 that TLC checks. *)
EXTENDS Http2

Headers(s, len, end, field) == [stream |-> s, type |-> "headers", len |-> len, end |-> end, field |-> field]
Data(s, len, end) == [stream |-> s, type |-> "data", len |-> len, end |-> end, field |-> "none"]
Other(s) == [stream |-> s, type |-> "other", len |-> 1, end |-> FALSE, field |-> "none"]

\* Two streams whose frames interleave; an interim response; trailers; a body that is cut off
\* by MaxBytes; a response that ends with its headers, and one that never ends; trailers of a
\* request, which may come after its release; frames too long to be reassembled.
MCScripts == {
  [client |-> <<Headers(1, 1, FALSE, "method"), Headers(2, 1, TRUE, "method"), Data(1, 2, TRUE)>>,
   server |-> <<Headers(1, 1, FALSE, "interim"), Headers(1, 1, FALSE, "final"), Data(1, 2, FALSE),
                Headers(2, 1, TRUE, "final"), Data(1, 2, TRUE)>>],
  [client |-> <<Other(1), Headers(1, 2, TRUE, "method"), Headers(2, 1, TRUE, "method")>>,
   server |-> <<Headers(2, 1, FALSE, "final"), Data(2, 1, FALSE), Headers(1, 1, FALSE, "final"),
                Data(1, 1, FALSE), Headers(2, 1, TRUE, "none"), Data(1, 0, TRUE)>>],
  [client |-> <<Headers(1, 1, FALSE, "method"), Data(1, 1, FALSE), Headers(1, 1, TRUE, "none")>>,
   server |-> <<Headers(1, 1, FALSE, "final"), Data(1, 2, FALSE), Headers(1, 1, TRUE, "none")>>],
  [client |-> <<Headers(1, 1, TRUE, "method"), Headers(2, 3, TRUE, "method")>>,
   server |-> <<Headers(1, 2, FALSE, "final"), Data(1, 1, TRUE), Headers(2, 3, TRUE, "final")>>]}
=============================================================================
