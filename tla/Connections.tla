---------------------------- MODULE Connections ----------------------------
(***************************************************************************)
(* The outbound connections of one container (containers/container.go,     *)
(* closed_connections.go, http_bodies.go): the three indexes by which an   *)
(* event finds its connection, the responses that parsers hold back for    *)
(* their bodies, and the three sweeps that forget connections or release   *)
(* what they hold.                                                         *)
(*                                                                         *)
(* The traced processes open and close sockets and send data; their events *)
(* wait in one queue in the order they happened (RingMerge).  A file       *)
(* descriptor is reused as soon as it is closed, a pair of addresses as    *)
(* soon as the peer has closed its side, both usually long before the      *)
(* agent has handled the events.                                           *)
(*                                                                         *)
(* Times are kept as ages (how long ago), which saturate where nothing     *)
(* tells them apart any more, so the clock is not bounded.                 *)
(***************************************************************************)
EXTENDS Integers, Sequences, FiniteSets

CONSTANTS
  Conns,       \* the connections, each with a timestamp of its own
  None,
  Plans,       \* bound: the connections that are made, and their L7 events
  QueueMax,    \* bound: events that wait to be handled
  FlushQueue,  \* bodyFlushMaxQueue
  Wait,        \* --http-body-wait
  HoldMax,     \* http1HoldMax
  Grace,       \* closedConnectionGrace
  GcInterval   \* gcInterval

ASSUME ConnsAssumption ==
  /\ None \notin Conns
  /\ \A p \in Plans : p.conns \subseteq Conns /\ DOMAIN p.fd = Conns /\ DOMAIN p.addr = Conns /\ p.l7 \in Nat
ASSUME TimesAssumption ==
  /\ {QueueMax, FlushQueue, Wait, HoldMax, Grace, GcInterval} \subseteq Nat
  /\ Wait <= HoldMax /\ Grace < GcInterval

VARIABLES
  plan,        \* kernel: which connections there are, on which descriptors and addresses
  sock,        \* kernel: the socket of a connection
  sent,        \* kernel: how many L7 events there were
  queue,       \* the events that wait, oldest first
  opened,      \* connections that were registered at some time
  active,      \* activeConnections: the latest connection of an address pair
  byPidFd,     \* connectionsByPidFd: the latest connection of a (pid, fd)
  byTs,        \* connectionsByPidFdTs
  closed,      \* age of ActiveConnection.Closed, Never while it is zero
  held,        \* age and quiet time of the response a parser holds back
  bodyHolders, \* Container.bodyHolders
  collected,   \* history: connections Container.gc removed
  missed       \* history: those it removed because the sockets it read lacked them

kernelVars == <<plan, sock, sent>>
indexes    == <<active, byPidFd, byTs>>
bodyVars   == <<held, bodyHolders>>
histories  == <<collected, missed>>
vars       == <<kernelVars, queue, opened, indexes, closed, bodyVars, histories>>

Fd    == plan.fd    \* the (pid, fd) of a connection
Addr  == plan.addr  \* its ConnectionKey (source and destination address)
Fds   == {Fd[i] : i \in Conns}
Addrs == {Addr[i] : i \in Conns}

Never  == -1
NoHold == [at |-> Never, quiet |-> Never]
Holds(i) == held[i] # NoHold

\* none; open: ESTABLISHED; half: the peer has closed its side, the descriptor is still
\* open; closed.
SocketState == {"none", "open", "half", "closed"}

Init ==
  /\ plan \in Plans
  /\ sock = [i \in Conns |-> "none"] /\ sent = 0
  /\ queue = <<>> /\ opened = {}
  /\ active = [a \in Addrs |-> None] /\ byPidFd = [f \in Fds |-> None] /\ byTs = {}
  /\ closed = [i \in Conns |-> Never]
  /\ held = [i \in Conns |-> NoHold] /\ bodyHolders = {}
  /\ collected = {} /\ missed = {}

-----------------------------------------------------------------------------
(* The traced processes and the kernel. *)

Post(kind, i) == Len(queue) < QueueMax /\ queue' = Append(queue, [kind |-> kind, conn |-> i])

Connect(i) ==
  /\ i \in plan.conns /\ sock[i] = "none"
  /\ \A j \in Conns : /\ Fd[j] = Fd[i] => sock[j] \in {"none", "closed"}
                      /\ Addr[j] = Addr[i] => sock[j] # "open"
  /\ sock' = [sock EXCEPT ![i] = "open"]
  /\ Post("open", i)
  /\ UNCHANGED <<plan, sent, opened, indexes, closed, bodyVars, histories>>

PeerClose(i) ==
  /\ sock[i] = "open"
  /\ sock' = [sock EXCEPT ![i] = "half"]
  /\ UNCHANGED <<plan, sent, queue, opened, indexes, closed, bodyVars, histories>>

\* The close event is lost when its ring is full.
Close(i) ==
  /\ sock[i] \in {"open", "half"}
  /\ sock' = [sock EXCEPT ![i] = "closed"]
  /\ Post("close", i) \/ UNCHANGED queue
  /\ UNCHANGED <<plan, sent, opened, indexes, closed, bodyVars, histories>>

\* Data of the connection; after the close when one thread is still in read() while
\* another closed the socket.
Data(i) ==
  /\ sock[i] # "none" /\ sent < plan.l7
  /\ sent' = sent + 1
  /\ Post("l7", i)
  /\ UNCHANGED <<plan, sock, opened, indexes, closed, bodyVars, histories>>

Older(age, top) == IF age = Never \/ age > top THEN age ELSE age + 1

Tick ==
  /\ closed' = [i \in Conns |-> Older(closed[i], GcInterval)]
  /\ held' = [i \in Conns |-> [at |-> Older(held[i].at, HoldMax - 1),
                               quiet |-> Older(held[i].quiet, Wait - 1)]]
  /\ UNCHANGED <<kernelVars, queue, opened, indexes, bodyHolders, histories>>

-----------------------------------------------------------------------------
(* handleEvents: one event. *)

Handle(kind, i) == queue # <<>> /\ Head(queue) = [kind |-> kind, conn |-> i] /\ queue' = Tail(queue)

\* A port or an address is filtered, or the process is not known: nothing is registered.
\* This also stands for an open event that was lost.
OpenRefused(i) ==
  /\ Handle("open", i)
  /\ UNCHANGED <<kernelVars, opened, indexes, closed, bodyVars, histories>>

\* The connection that had the descriptor before is closed now, whether or not its close
\* event came.
Open(i) ==
  /\ Handle("open", i)
  /\ opened' = opened \union {i}
  /\ active' = [active EXCEPT ![Addr[i]] = i]
  /\ byPidFd' = [byPidFd EXCEPT ![Fd[i]] = i]
  /\ byTs' = byTs \union {i}
  /\ closed' = [j \in Conns |-> IF j = byPidFd[Fd[i]] THEN 0 ELSE closed[j]]
  /\ UNCHANGED <<kernelVars, bodyVars, histories>>

\* Only the connection that has the descriptor now is closed, and only by its own event.
OnClose(i) ==
  /\ Handle("close", i)
  /\ closed' = [closed EXCEPT ![i] = IF byPidFd[Fd[i]] = i /\ @ = Never THEN 0 ELSE @]
  /\ UNCHANGED <<kernelVars, opened, indexes, bodyVars, histories>>

\* Mutant: the connection is looked up by its descriptor alone.
LookupByFd(i) == byPidFd[Fd[i]]

\* How onL7Request finds the connection of an event.
Lookup(i) == IF byPidFd[Fd[i]] = i \/ i \in byTs THEN i ELSE None

\* The event is dropped (and counted).
L7Dropped(i) ==
  /\ Handle("l7", i)
  /\ Lookup(i) = None
  /\ UNCHANGED <<kernelVars, opened, indexes, closed, bodyVars, histories>>

\* What an event does to the response its parser holds: nothing; it is complete, or the next
\* message releases it; its body goes on; another one is held.
ParserResults(h) ==
  {h, NoHold, [at |-> 0, quiet |-> 0]} \union {[at |-> a, quiet |-> 0] : a \in {h.at} \ {Never}}

L7Observed(i) ==
  /\ Handle("l7", i)
  /\ Lookup(i) # None
  /\ \E h \in ParserResults(held[Lookup(i)]) :
       /\ held' = [held EXCEPT ![Lookup(i)] = h]
       /\ bodyHolders' = IF h = NoHold THEN bodyHolders ELSE bodyHolders \union {Lookup(i)}
  /\ UNCHANGED <<kernelVars, opened, indexes, closed, histories>>

OnEvent(i) == OpenRefused(i) \/ Open(i) \/ OnClose(i) \/ L7Dropped(i) \/ L7Observed(i)

-----------------------------------------------------------------------------
(* The sweeps. *)

\* Flush of a parser: the response is released once it has been quiet or held for long
\* enough.
Flushed(i) == IF held[i].quiet >= Wait \/ held[i].at >= HoldMax THEN NoHold ELSE held[i]

\* flushHttpBodies, unless the agent is behind on events.
FlushHttpBodies ==
  /\ Len(queue) <= FlushQueue
  /\ held' = [i \in Conns |-> IF i \in bodyHolders THEN Flushed(i) ELSE held[i]]
  /\ bodyHolders' = {i \in bodyHolders : Flushed(i) # NoHold}
  /\ UNCHANGED <<kernelVars, queue, opened, indexes, closed, histories>>

Current == {i \in Conns : active[Addr[i]] = i}

\* The connections of S leave every index in which they still are.
Forget(S) ==
  /\ active' = [a \in Addrs |-> IF active[a] \in S THEN None ELSE active[a]]
  /\ byPidFd' = [f \in Fds |-> IF byPidFd[f] \in S THEN None ELSE byPidFd[f]]
  /\ byTs' = byTs \ S

\* Mutant: only activeConnections is visited.
GcClosedCurrentOnly ==
  LET expired == {i \in Current : closed[i] > Grace} IN
  /\ held' = [i \in Conns |-> IF i \in expired THEN Flushed(i) ELSE held[i]]
  /\ bodyHolders' = bodyHolders \ expired
  /\ Forget(expired)
  /\ UNCHANGED <<kernelVars, queue, opened, closed, histories>>
\* Mutant: (pid, fd) is freed whoever has it.
GcClosedFreesFd ==
  LET expired == {i \in Current \union byTs : closed[i] > Grace} IN
  /\ held' = [i \in Conns |-> IF i \in expired THEN Flushed(i) ELSE held[i]]
  /\ bodyHolders' = bodyHolders \ expired
  /\ active' = [a \in Addrs |-> IF \E i \in expired : Addr[i] = a THEN None ELSE active[a]]
  /\ byPidFd' = [f \in Fds |-> IF \E i \in expired : Fd[i] = f THEN None ELSE byPidFd[f]]
  /\ byTs' = {i \in byTs : ~ \E j \in expired : Fd[j] = Fd[i]}
  /\ UNCHANGED <<kernelVars, queue, opened, closed, histories>>

\* gcClosedConnections: the current connections closed long enough ago, then the ones whose
\* addresses a newer connection has, which count as closed from now on.
GcClosedConnections ==
  LET superseded == byTs \ Current
      expired    == {i \in Current \union superseded : closed[i] > Grace} IN
  /\ held' = [i \in Conns |-> IF i \in expired THEN Flushed(i) ELSE held[i]]
  /\ bodyHolders' = bodyHolders \ expired
  /\ Forget(expired)
  /\ closed' = [i \in Conns |-> IF i \in superseded /\ closed[i] = Never THEN 0 ELSE closed[i]]
  /\ UNCHANGED <<kernelVars, queue, opened, histories>>

\* The addresses between which there is an ESTABLISHED socket.
Established == {Addr[i] : i \in {j \in Conns : sock[j] = "open"}}

\* Mutant: a connection that /proc/net/tcp does not show is only taken out of
\* activeConnections.
GcActiveOnly ==
  \E read \in SUBSET Established :
    LET gone == {i \in Current : Addr[i] \notin read \/ closed[i] > GcInterval} IN
    /\ active' = [a \in Addrs |-> IF active[a] \in gone THEN None ELSE active[a]]
    /\ byTs' = byTs \ gone
    /\ collected' = collected \union gone
    /\ missed' = missed \union {i \in gone : Addr[i] \in Established \ read}
    /\ UNCHANGED <<kernelVars, queue, opened, byPidFd, closed, bodyVars>>

\* Container.gc, in a goroutine of its own: the connections that the sockets it reads do not
\* show as ESTABLISHED, and those closed long ago whose addresses they show.  The sockets are
\* those of /proc/<pid>/net of one process of each network namespace.  A read that fails
\* gives none, and so does one of a process that is gone, with no error and the namespace
\* counted as read.
Gc ==
  \E read \in SUBSET Established :
    LET gone == {i \in Current : Addr[i] \notin read \/ closed[i] > GcInterval} IN
    /\ Forget(gone)
    /\ collected' = collected \union gone
    /\ missed' = missed \union {i \in gone : Addr[i] \in Established \ read}
    /\ UNCHANGED <<kernelVars, queue, opened, closed, bodyVars>>

Traced == \E i \in Conns : Connect(i) \/ PeerClose(i) \/ Close(i) \/ Data(i)

Next ==
  \/ Traced
  \/ \E i \in Conns : OnEvent(i)
  \/ Tick \/ FlushHttpBodies \/ GcClosedConnections \/ Gc

\* The event loop and the gc goroutine take no lock for longer than one of these steps, and
\* their tickers do not stop; the traced processes need not do anything.
Fairness ==
  /\ WF_vars(\E i \in Conns : OnEvent(i))
  /\ WF_vars(Tick) /\ WF_vars(FlushHttpBodies) /\ WF_vars(GcClosedConnections) /\ WF_vars(Gc)

Spec == Init /\ [][Next]_vars /\ Fairness
-----------------------------------------------------------------------------
(* Properties *)

Ages(top) == {Never} \union 0..top

\* Type invariant.
TypeOK ==
  /\ sock \in [Conns -> SocketState] /\ sent \in 0..plan.l7
  /\ queue \in Seq([kind : {"open", "close", "l7"}, conn : Conns]) /\ Len(queue) <= QueueMax
  /\ opened \subseteq Conns /\ missed \subseteq collected /\ collected \subseteq Conns
  /\ bodyHolders \subseteq Conns
  /\ active \in [Addrs -> Conns \union {None}] /\ byPidFd \in [Fds -> Conns \union {None}]
  /\ byTs \subseteq opened
  /\ closed \in [Conns -> Ages(GcInterval + 1)]
  /\ held \in [Conns -> [at : Ages(HoldMax), quiet : Ages(Wait)]]

\* The three indexes name the same connections: whatever activeConnections or
\* connectionsByPidFd leads to is in connectionsByPidFdTs, so that the sweep that looks for
\* superseded connections there misses none, and a forgotten connection is in none of them.
\* A registered connection that holds a response back is one of the bodyHolders, where
\* flushHttpBodies finds it.
IndexesAgree ==
  /\ TypeOK
  /\ \A i \in Conns : (active[Addr[i]] = i \/ byPidFd[Fd[i]] = i) => i \in byTs
  /\ \A i \in byTs : Holds(i) => i \in bodyHolders

\* An L7 event finds its own connection, from the open until closedConnectionGrace after the
\* close, however often the descriptor and the addresses were reused meanwhile (the
\* comment of connectionsByPidFdTs and of the lookup in onL7Request), unless Container.gc
\* has removed it.
FoundUntilGrace ==
  \A i \in opened \ collected : closed[i] <= Grace => Lookup(i) = i

\* A registered connection whose socket is established does not count as closed, and neither
\* its descriptor nor its addresses lead to another connection: not the close event of an
\* earlier owner of the descriptor, nor a lost one, nor a sweep takes it.  It is the one that
\* they and its timestamp lead to, unless Container.gc read the sockets of its network
\* namespace and it was not among them.
EstablishedIsOpen ==
  \A i \in opened : sock[i] = "open" =>
    /\ closed[i] = Never
    /\ active[Addr[i]] \in {i, None} /\ byPidFd[Fd[i]] \in {i, None}
    /\ i \in missed \/ (active[Addr[i]] = i /\ byPidFd[Fd[i]] = i /\ i \in byTs)

\* A connection whose socket is closed is forgotten, also when its close event was lost,
\* when its descriptor or its addresses were taken over, or when it closed before its
\* open was handled (the leak the second loop of gcClosedConnections is there for).  The one
\* exception: its close was lost and a connection that the agent does not know of is
\* established between the same addresses.  Nor does one stay referenced by the body holders
\* (closed_connections_test.go).
EventuallyForgotten ==
  \A i \in Conns :
    /\ []<>((i \in byTs /\ sock[i] = "closed") =>
              \E j \in Conns \ opened : Addr[j] = Addr[i] /\ sock[j] = "open")
    /\ []<>(i \notin bodyHolders)
=============================================================================
