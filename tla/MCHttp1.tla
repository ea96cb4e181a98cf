------------------------------ MODULE MCHttp1 ------------------------------
(* The instance of Http1 that TLC checks. *)
EXTENDS Http1

\* The pieces of calls of six shapes.
Shapes == <<
  [kind |-> "chunked", whats |-> <<"reqHead", "reqEnd", "respHead", "respEnd", "respData">>],
  [kind |-> "length",  whats |-> <<"reqHead", "reqEnd", "respHead", "respEnd", "reqData", "respData", "respData">>],
  [kind |-> "none",    whats |-> <<"reqHead", "reqEnd", "respHead", "respEnd">>],
  [kind |-> "chunked", whats |-> <<"reqHead", "reqEnd", "reqData", "respAsData", "respData">>],
  [kind |-> "length",  whats |-> <<"reqHead", "reqEnd", "interim", "respHead", "respEnd", "respData">>],
  [kind |-> "chunked", whats |-> <<"reqHead", "reqEnd", "respHead", "respEnd">>]>>

CallOf(call, shape) ==
  [k \in DOMAIN shape.whats |-> [call |-> call, kind |-> shape.kind, what |-> shape.whats[k]]]

\* Three calls on the first connection, one on the second.
Script(a, b, c) ==
  <<CallOf(1, Shapes[a]) \o CallOf(2, Shapes[b]) \o CallOf(3, Shapes[c]), CallOf(1, Shapes[6])>>

MCScripts == {Script(4, 2, 3), Script(1, 5, 3)}
MCSkipped == {<<1, 2>>}
=============================================================================
