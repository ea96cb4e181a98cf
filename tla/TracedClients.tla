---------------------------- MODULE TracedClients ---------------------------
(***************************************************************************)
(* The clients whose requests are recorded at the client, so that servers  *)
(* skip their bodies: the list that Coroot sends and the addresses of the  *)
(* node's own clients, kept in a map of the kernel                         *)
(* (containers/traced_clients.go, ebpftracer/traced_clients.go).           *)
(* EventLoop composes it with handleEvents, which applies both.            *)
(***************************************************************************)
EXTENDS Naturals, Sequences, FiniteSets

CONSTANTS
  Ips,         \* addresses
  HostIps,     \* those of processes in the network namespace of the host
  MapSize,     \* max_entries of traced_clients
  MaxAnswers,  \* bound: how often what Coroot knows changes
  MaxLocal,    \* bound: connections opened and closed on the node
  MaxFailures  \* bound: map operations that fail although there is room

ASSUME ClientsAssumption == IsFiniteSet(Ips) /\ HostIps \subseteq Ips /\ {MapSize, MaxAnswers, MaxLocal, MaxFailures} \subseteq Nat

VARIABLES
  coroot,   \* the clients that Coroot knows, {} while it does not know them
  fetcher,  \* runTracedClientsFetcher: the answers it waits to send, at most one
  lists,    \* the channel tracedClientsUpdates, of capacity one
  remote,   \* Registry.remoteTracedClients
  open,     \* the addresses that open connections of the containers come from
  known,    \* Tracer.tracedClients
  kernel,   \* the map traced_clients
  answers, changes, failures  \* how often the bounded steps were taken

clientVars == <<coroot, fetcher, lists, remote, open, known, kernel, answers, changes, failures>>
counts == <<answers, changes, failures>>

NoClients ==
  /\ coroot = {} /\ fetcher = <<>> /\ lists = <<>> /\ remote = {} /\ open = {} /\ known = {} /\ kernel = {}
  /\ answers = 0 /\ changes = 0 /\ failures = 0

\* What Coroot answers: the addresses of pods on nodes with an agent, or that it is not ready.
Answer ==
  /\ answers < MaxAnswers /\ answers' = answers + 1
  /\ coroot' \in SUBSET Ips
  /\ UNCHANGED <<fetcher, lists, remote, open, known, kernel, changes, failures>>

\* fetchTracedClients: an error, an older Coroot or one that is not ready gives no clients.
Fetch ==
  /\ fetcher = <<>>
  /\ \/ fetcher' = <<coroot>> /\ UNCHANGED failures
     \/ failures < MaxFailures /\ failures' = failures + 1 /\ fetcher' = <<{}>>
  /\ UNCHANGED <<coroot, lists, remote, open, known, kernel, answers, changes>>

SendList ==
  /\ fetcher # <<>> /\ lists = <<>>
  /\ lists' = fetcher /\ fetcher' = <<>>
  /\ UNCHANGED <<coroot, remote, open, known, kernel, counts>>

\* Connections of the node's containers, as onConnectionOpen and onConnectionClose record them.
Local(ip) ==
  /\ changes < MaxLocal /\ changes' = changes + 1
  /\ open' = IF ip \in open THEN open \ {ip} ELSE open \union {ip}
  /\ UNCHANGED <<coroot, fetcher, lists, remote, known, kernel, answers, failures>>

LocalTracedClients == open \ HostIps

\* SetTracedClients: what is missing is put, then what is not wanted any more deleted, in any
\* order; the first error ends it.  A put fails when the map is full.
SetTracedClients(ips) ==
  \/ /\ Cardinality(kernel \union (ips \ known)) <= MapSize
     /\ \E left \in SUBSET (known \ ips) :
          /\ kernel' = (kernel \union (ips \ known)) \ ((known \ ips) \ left)
          /\ known' = ips \union left
          /\ left # {} => failures < MaxFailures
          /\ failures' = IF left # {} THEN failures + 1 ELSE failures
  \/ \E added \in SUBSET (ips \ known) :
       /\ added # ips \ known
       /\ kernel' = kernel \union added /\ known' = known \union added /\ Cardinality(kernel') <= MapSize
       /\ Cardinality(kernel') < MapSize => failures < MaxFailures
       /\ failures' = IF Cardinality(kernel') < MapSize THEN failures + 1 ELSE failures

\* Mutant: a list without clients is taken for a failure to fetch it.
ReceiveIgnoresEmpty ==
  /\ lists # <<>> /\ lists' = <<>> /\ remote' = IF Head(lists) = {} THEN remote ELSE Head(lists)
  /\ SetTracedClients(remote' \union LocalTracedClients)
  /\ UNCHANGED <<coroot, fetcher, open, answers, changes>>

\* The case of handleEvents for a list, and the one for its ticker.
ReceiveList ==
  /\ lists # <<>> /\ lists' = <<>> /\ remote' = Head(lists)
  /\ SetTracedClients(remote' \union LocalTracedClients)
  /\ UNCHANGED <<coroot, fetcher, open, answers, changes>>

UpdateTracedClients ==
  /\ SetTracedClients(remote \union LocalTracedClients)
  /\ UNCHANGED <<coroot, fetcher, lists, remote, open, answers, changes>>

Fetching == Fetch \/ SendList

-----------------------------------------------------------------------------
Wanted == coroot \union LocalTracedClients

\* What the tracer believes to be in the map is there, whichever operation failed; and the map
\* comes to hold the clients of Coroot and of the node, whatever was lost or failed, as long as
\* it has room for them together with those they replace: SetTracedClients deletes last.
ClientsSettle ==
  /\ [](known = kernel)
  /\ []<>(Cardinality(kernel \union Wanted) > MapSize \/ kernel = Wanted)
=============================================================================
