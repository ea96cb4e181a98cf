--------------------------- MODULE MCConnections ---------------------------
(* Three connections: c1 and c2 use the same descriptor, c1 and c3 the     *)
(* same addresses.  Or two of them, with data: c1 and c2, c1 and c3, or    *)
(* two on the same descriptor and from the same port (a client that binds  *)
(* its socket).                                                            *)
EXTENDS Connections

CONSTANTS c1, c2, c3

MCConns == {c1, c2, c3}
MCFd    == [i \in MCConns |-> IF i = c3 THEN "fd4" ELSE "fd3"]
MCAddr  == [i \in MCConns |-> IF i = c2 THEN "port2" ELSE "port1"]
MCThree == [conns |-> MCConns, l7 |-> 0, fd |-> MCFd, addr |-> MCAddr]
MCTwo   == {[conns |-> {c1, i}, l7 |-> 2, fd |-> MCFd, addr |-> MCAddr] : i \in {c2, c3}}
MCPair  == [conns |-> {c1, c2}, l7 |-> 2,
            fd |-> [i \in MCConns |-> "fd3"], addr |-> [i \in MCConns |-> "port1"]]
MCPlans == {MCThree, MCPair} \union MCTwo
=============================================================================
