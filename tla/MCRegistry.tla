----------------------------- MODULE MCRegistry -----------------------------
(* A server whose pid is used twice, alone; one that changes its cgroup; a server and a     *)
(* process it forks; the same with the pid of the server used again, or with the server     *)
(* changing its cgroup; a server, a process it forks and one that this one forks. *)
EXTENDS Registry

CONSTANTS server, child, grandchild, A, B, C

MCPids  == {server, child, grandchild}
MCForks == [p \in Pids |-> IF p = server THEN {None} ELSE IF p = child THEN {server} ELSE {child}]

Only(p, n) == [q \in Pids |-> IF q = p THEN n ELSE 0]
Plan(n, l7, cgroups, moves, lossy, ring) ==
  [starts |-> n, forks |-> MCForks, events |-> l7, cgroups |-> cgroups, moves |-> moves,
   lossy |-> lossy, ring |-> ring]
MCReuse  == Plan(Only(server, 2), Only(server, 1), Cgroups, {}, {server}, 1)
MCMove   == Plan(Only(server, 1), Only(server, 1), Cgroups, {server}, {server}, 1)
MCFamily == Plan([Only(server, 1) EXCEPT ![child] = 1], Only(child, 1), {A, B}, {}, MCPids, 1)
MCOrphan == Plan([Only(server, 2) EXCEPT ![child] = 1], Only(child, 1), {A, B}, {}, {server}, 1)
MCHeir   == Plan([Only(server, 1) EXCEPT ![child] = 1], Only(child, 1), {A, B}, {server}, {}, 1)
MCDeep   == Plan([p \in Pids |-> 1], Only(grandchild, 1), {A}, {}, {}, 1)
MCPlans  == {MCReuse, MCMove, MCFamily, MCOrphan, MCHeir, MCDeep}
=============================================================================
