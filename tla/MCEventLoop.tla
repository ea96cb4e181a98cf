---------------------------- MODULE MCEventLoop ----------------------------
EXTENDS EventLoop

\* Two services have one unit: the second is refused while the first is subscribed.
MCUnitOf == [c \in 1..3 |-> IF c = 3 THEN 2 ELSE 1]
=============================================================================
