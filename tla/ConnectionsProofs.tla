------------------------- MODULE ConnectionsProofs -------------------------
(***************************************************************************)
(* The indexes of the connections of a container agree, an L7 event finds  *)
(* its connection until the grace is over, and an established connection   *)
(* is not taken for a closed one: for any connections, descriptors,        *)
(* addresses, queue length and times.                                      *)
(***************************************************************************)
EXTENDS Connections, TLAPS

\* Connections that compete for a descriptor or for a pair of addresses.
Rivals(i, j) == i # j /\ (Fd[i] = Fd[j] \/ Addr[i] = Addr[j])

IsOpen(n) == queue[n].kind = "open"

\* What is true of the events that wait: a connection has at most one open event, its close
\* event comes when its socket is closed, and the open event of a connection waits behind
\* those of the rivals whose sockets were given up for it.
QueueInv ==
  /\ \A i \in opened : sock[i] # "none"
  /\ \A n \in 1..Len(queue) :
       /\ sock[queue[n].conn] # "none"
       /\ queue[n].kind = "close" => sock[queue[n].conn] = "closed"
       /\ IsOpen(n) => queue[n].conn \notin opened
  /\ \A m, n \in 1..Len(queue) :
       m < n /\ IsOpen(m) /\ IsOpen(n) => queue[m].conn # queue[n].conn
  /\ \A n \in 1..Len(queue) : IsOpen(n) =>
       \A i \in opened : Rivals(i, queue[n].conn) => sock[i] # "open"
  /\ \A m, n \in 1..Len(queue) : m < n /\ IsOpen(m) /\ IsOpen(n) =>
       (Rivals(queue[m].conn, queue[n].conn) => sock[queue[m].conn] # "open")

\* What the indexes lead to was registered under that key; what was never registered has no
\* state; what has left the indexes has been closed for long or was collected, and what gc
\* missed has left them for good.
IndexInv ==
  /\ \A a \in Addrs : active[a] # None => active[a] \in byTs /\ Addr[active[a]] = a
  /\ \A f \in Fds : byPidFd[f] # None => byPidFd[f] \in byTs /\ Fd[byPidFd[f]] = f
  /\ \A i \in Conns \ opened : closed[i] = Never /\ ~Holds(i)
  /\ \A i \in byTs : Holds(i) => i \in bodyHolders
  /\ \A i \in opened \ collected : i \notin byTs => closed[i] > Grace
  /\ missed \subseteq opened \ byTs

\* The inductive invariant.  EstablishedIsOpen needs the order of the queue, the other two the
\* facts about the indexes.
ConnInv == TypeOK /\ plan \in Plans /\ QueueInv /\ IndexInv /\ EstablishedIsOpen

Event == [kind : {"open", "close", "l7"}, conn : Conns]

\* Every connection has a descriptor and a pair of addresses among the keys of the indexes.
LEMMA Keys ==
  ASSUME NEW i \in Conns
  PROVE  Fd[i] \in Fds /\ Addr[i] \in Addrs
  BY Zenon DEF Fds, Addrs

\* What Post does to the queue.
LEMMA PostQueue ==
  ASSUME TypeOK, NEW kind \in {"open", "close", "l7"}, NEW i \in Conns, Post(kind, i)
  PROVE  /\ queue' \in Seq(Event) /\ Len(queue') <= QueueMax
         /\ Len(queue) \in Nat /\ Len(queue') = Len(queue) + 1
         /\ \A n \in 1..Len(queue) : queue'[n] = queue[n]
         /\ queue'[Len(queue) + 1] = [kind |-> kind, conn |-> i]
  BY TimesAssumption DEF TypeOK, Post, Event

\* What Handle does to the queue.
LEMMA HandleQueue ==
  ASSUME TypeOK, NEW kind \in {"open", "close", "l7"}, NEW i \in Conns, Handle(kind, i)
  PROVE  /\ queue' \in Seq(Event) /\ Len(queue') <= QueueMax
         /\ Len(queue) \in Nat \ {0} /\ Len(queue') = Len(queue) - 1
         /\ queue[1] = [kind |-> kind, conn |-> i]
         /\ \A n \in 1..Len(queue') : n + 1 \in 1..Len(queue) /\ queue'[n] = queue[n + 1]
<1> USE DEF TypeOK, Handle, Event
<1>1. queue # <<>> /\ queue \in Seq(Event)
    BY Zenon
<1>2. Len(queue) \in Nat \ {0} /\ queue' = Tail(queue) /\ queue[1] = Head(queue)
    BY <1>1
<1>3. Len(queue') = Len(queue) - 1 /\ queue' \in Seq(Event)
    BY <1>1, <1>2
<1>4. ASSUME NEW n \in 1..Len(queue') PROVE n + 1 \in 1..Len(queue) /\ queue'[n] = queue[n + 1]
    BY <1>1, <1>2, <1>3
<1> QED BY <1>1, <1>2, <1>3, <1>4, TimesAssumption

\* Ages stay in their range.
LEMMA OlderType ==
  ASSUME NEW top \in Int, top >= -1, NEW age \in Ages(top + 1)
  PROVE  Older(age, top) \in Ages(top + 1) /\ Older(age, top) >= age /\ (age = Never <=> Older(age, top) = Never)
  BY DEF Ages, Older, Never

\* What gc removes: current connections that were not read or were closed long ago.
LEMMA GcFacts ==
  ASSUME Gc
  PROVE  \E gone \in SUBSET Conns :
           /\ Forget(gone) /\ collected' = collected \union gone
           /\ missed \subseteq missed' /\ missed' \subseteq missed \union gone
           /\ gone \subseteq Current
           /\ \A i \in gone : closed[i] > GcInterval \/ i \in missed' \/ Addr[i] \notin Established
<1>1. PICK read \in SUBSET Established :
        LET gone == {i \in Current : Addr[i] \notin read \/ closed[i] > GcInterval} IN
        /\ Forget(gone)
        /\ collected' = collected \union gone
        /\ missed' = missed \union {i \in gone : Addr[i] \in Established \ read}
    BY Zenon DEF Gc
<1> DEFINE gone == {i \in Current : Addr[i] \notin read \/ closed[i] > GcInterval}
<1>2. gone \in SUBSET Conns /\ gone \subseteq Current
    BY Zenon DEF Current
<1>3. \A i \in gone : closed[i] > GcInterval \/ Addr[i] \notin read
    BY Zenon
<1>4. /\ Forget(gone) /\ collected' = collected \union gone
      /\ missed' = missed \union {i \in gone : Addr[i] \in Established \ read}
    BY <1>1, Zenon
<1> HIDE DEF gone
<1>5. \A i \in gone : closed[i] > GcInterval \/ i \in missed' \/ Addr[i] \notin Established
    BY <1>3, <1>4, Zenon
<1> QED BY <1>2, <1>4, <1>5, Zenon

\* Every step keeps the types.
LEMMA TypeStep == ConnInv /\ [Next]_vars => TypeOK' /\ (plan \in Plans)'
<1> SUFFICES ASSUME ConnInv, [Next]_vars PROVE TypeOK' /\ plan' \in Plans
    BY Zenon
<1>0. TypeOK /\ plan \in Plans
    BY Zenon DEF ConnInv
<1> USE <1>0
<1>1. ASSUME NEW i \in Conns, Connect(i) PROVE TypeOK' /\ plan' = plan
    <2>1. Post("open", i)
        BY <1>1, Zenon DEF Connect
    <2>2. queue' \in Seq(Event) /\ Len(queue') <= QueueMax
        BY <2>1, PostQueue, Zenon
    <2> QED BY <1>1, <2>2 DEF Connect, TypeOK, Event, SocketState, indexes, bodyVars, histories, Fds, Addrs, Fd, Addr
<1>2. ASSUME NEW i \in Conns, PeerClose(i) PROVE TypeOK' /\ plan' = plan
    BY <1>2 DEF PeerClose, TypeOK, SocketState, indexes, bodyVars, histories, Fds, Addrs, Fd, Addr
<1>3. ASSUME NEW i \in Conns, Close(i) PROVE TypeOK' /\ plan' = plan
    <2>1. queue' \in Seq(Event) /\ Len(queue') <= QueueMax
        BY <1>3, PostQueue, Zenon DEF Close, TypeOK, Event
    <2> QED BY <1>3, <2>1 DEF Close, TypeOK, Event, SocketState, indexes, bodyVars, histories, Fds, Addrs, Fd, Addr
<1>4. ASSUME NEW i \in Conns, Data(i) PROVE TypeOK' /\ plan' = plan
    <2>1. queue' \in Seq(Event) /\ Len(queue') <= QueueMax
        BY <1>4, PostQueue, Zenon DEF Data
    <2>2. plan.l7 \in Nat
        BY ConnsAssumption, Zenon
    <2> QED BY <1>4, <2>1, <2>2 DEF Data, TypeOK, Event, SocketState, indexes, bodyVars, histories, Fds, Addrs, Fd, Addr
<1>5. ASSUME NEW i \in Conns, OnEvent(i) PROVE TypeOK' /\ plan' = plan
    <2>1. queue' \in Seq(Event) /\ Len(queue') <= QueueMax
        BY <1>5, HandleQueue, Zenon DEF OnEvent, OpenRefused, Open, OnClose, L7Dropped, L7Observed
    <2>2. /\ plan' = plan /\ sock' = sock /\ sent' = sent /\ Fds' = Fds /\ Addrs' = Addrs
          /\ collected' = collected /\ missed' = missed
        BY <1>5, Zenon DEF OnEvent, OpenRefused, Open, OnClose, L7Dropped, L7Observed, kernelVars, histories,
               Fds, Addrs, Fd, Addr
    <2> SUFFICES /\ opened' \subseteq Conns /\ bodyHolders' \subseteq Conns
                 /\ active' \in [Addrs -> Conns \union {None}]
                 /\ byPidFd' \in [Fds -> Conns \union {None}] /\ byTs' \subseteq opened'
                 /\ closed' \in [Conns -> Ages(GcInterval + 1)]
                 /\ held' \in [Conns -> [at : Ages(HoldMax), quiet : Ages(Wait)]]
        BY <2>1, <2>2, Zenon DEF TypeOK, Event
    <2> USE DEF TypeOK, indexes, bodyVars, histories
    <2>3. 0 \in Ages(GcInterval + 1) /\ 0 \in Ages(HoldMax) /\ 0 \in Ages(Wait)
        BY TimesAssumption DEF Ages
    <2>4. CASE OpenRefused(i) \/ L7Dropped(i)
        BY <2>4, Zenon DEF OpenRefused, L7Dropped
    <2>5. CASE Open(i)
        BY <2>5, <2>3, Zenon DEF Open
    <2>6. CASE OnClose(i)
        BY <2>6, <2>3, Zenon DEF OnClose
    <2>7. CASE L7Observed(i)
        <3>1. Lookup(i) = i
            BY <2>7, Zenon DEF L7Observed, Lookup
        <3>2. PICK h \in ParserResults(held[i]) :
                /\ held' = [held EXCEPT ![i] = h]
                /\ bodyHolders' = IF h = NoHold THEN bodyHolders ELSE bodyHolders \union {i}
            BY <2>7, <3>1, Zenon DEF L7Observed
        <3>3. h \in [at : Ages(HoldMax), quiet : Ages(Wait)]
            BY <2>3, <3>2 DEF ParserResults, NoHold, Ages
        <3> QED BY <2>7, <3>2, <3>3, Zenon DEF L7Observed
    <2> QED BY <1>5, <2>4, <2>5, <2>6, <2>7, Zenon DEF OnEvent
<1>6. CASE Tick
    <2>1. \A i \in Conns : Older(closed[i], GcInterval) \in Ages(GcInterval + 1)
        BY OlderType, TimesAssumption DEF TypeOK
    <2>2. ASSUME NEW i \in Conns
          PROVE  Older(held[i].at, HoldMax - 1) \in Ages(HoldMax) /\ Older(held[i].quiet, Wait - 1) \in Ages(Wait)
        <3>1. HoldMax - 1 \in Int /\ HoldMax - 1 >= -1 /\ (HoldMax - 1) + 1 = HoldMax
              /\ Wait - 1 \in Int /\ Wait - 1 >= -1 /\ (Wait - 1) + 1 = Wait
            BY TimesAssumption
        <3>2. held[i].at \in Ages(HoldMax) /\ held[i].quiet \in Ages(Wait)
            BY Zenon DEF TypeOK
        <3> QED BY <3>1, <3>2, OlderType, Zenon
    <2> QED BY <1>6, <2>1, <2>2 DEF Tick, TypeOK, kernelVars, indexes, bodyVars, histories, Fds, Addrs, Fd, Addr
<1>7. ASSUME NEW i \in Conns PROVE Flushed(i) \in [at : Ages(HoldMax), quiet : Ages(Wait)]
    BY Zenon DEF Flushed, TypeOK, NoHold, Ages
<1>8. CASE FlushHttpBodies
    BY <1>8, <1>7 DEF FlushHttpBodies, TypeOK, kernelVars, indexes, bodyVars, histories, Fds, Addrs, Fd, Addr
<1>9. CASE GcClosedConnections
    <2>1. 0 \in Ages(GcInterval + 1)
        BY TimesAssumption DEF Ages
    <2> QED BY <1>9, <1>7, <2>1 DEF GcClosedConnections, Forget, TypeOK, kernelVars, histories, Fds, Addrs, Fd, Addr
<1>10. CASE Gc
    <2>1. PICK gone \in SUBSET Conns :
            /\ Forget(gone) /\ collected' = collected \union gone
            /\ missed' \subseteq missed \union gone
        BY <1>10, GcFacts, Zenon
    <2>2. UNCHANGED <<kernelVars, queue, opened, closed, bodyVars>>
        BY <1>10, Zenon DEF Gc
    <2> QED BY <2>1, <2>2, SMTT(30) DEF Forget, TypeOK, kernelVars, bodyVars, Fds, Addrs, Fd, Addr
<1>11. CASE UNCHANGED vars
    BY <1>11 DEF vars, TypeOK, kernelVars, indexes, bodyVars, histories, Fds, Addrs, Fd, Addr
<1>12. plan' = plan
    BY <1>1, <1>2, <1>3, <1>4, <1>5, <1>6, <1>8, <1>9, <1>10, <1>11, Zenon
    DEF Next, Traced, Tick, FlushHttpBodies, GcClosedConnections, Gc, vars, kernelVars, histories
<1> QED
    BY <1>1, <1>2, <1>3, <1>4, <1>5, <1>6, <1>8, <1>9, <1>10, <1>11, <1>12, Zenon DEF Next, Traced

\* Handling an event keeps the order of those behind it: the connection that Open registers is
\* the one all the queued open events of its rivals wait for.
LEMMA QueuePopped ==
  ASSUME ConnInv, NEW kind \in {"open", "close", "l7"}, NEW i \in Conns, Handle(kind, i),
         plan' = plan, sock' = sock,
         opened' = opened \/ (kind = "open" /\ opened' = opened \union {i})
  PROVE  QueueInv'
<1> USE DEF ConnInv
<1>1. /\ Len(queue) \in Nat \ {0} /\ Len(queue') = Len(queue) - 1
      /\ queue[1] = [kind |-> kind, conn |-> i] /\ 1 \in 1..Len(queue)
      /\ \A n \in 1..Len(queue') : n + 1 \in 1..Len(queue) /\ queue'[n] = queue[n + 1]
    BY HandleQueue
<1>2. Fd' = Fd /\ Addr' = Addr
    BY Zenon DEF Fd, Addr
<1>3. \A n \in 1..Len(queue') : (IsOpen(n))' <=> IsOpen(n + 1)
    BY <1>1, Zenon DEF IsOpen
<1>4. (\A j \in opened : sock[j] # "none")'
    BY <1>1 DEF QueueInv
<1>5. ASSUME NEW n \in 1..Len(queue')
      PROVE /\ sock'[queue'[n].conn] # "none"
            /\ queue'[n].kind = "close" => sock'[queue'[n].conn] = "closed"
            /\ (IsOpen(n))' => queue'[n].conn \notin opened'
    <2>1. kind = "open" => IsOpen(1)
        BY <1>1 DEF IsOpen
    <2>2. 1 < n + 1 /\ n + 1 \in 1..Len(queue)
        BY <1>1
    <2> QED BY <1>1, <1>3, <2>1, <2>2, SMTT(30) DEF QueueInv
<1>6. ASSUME NEW m \in 1..Len(queue'), NEW n \in 1..Len(queue'), m < n, (IsOpen(m))', (IsOpen(n))'
      PROVE /\ queue'[m].conn # queue'[n].conn
            /\ Rivals(queue[m].conn, queue[n].conn)' => sock'[queue'[m].conn] # "open"
    <2>1. m + 1 < n + 1 /\ m + 1 \in 1..Len(queue) /\ n + 1 \in 1..Len(queue) /\ IsOpen(m + 1) /\ IsOpen(n + 1)
        BY <1>1, <1>3, <1>6
    <2>2. queue'[m] = queue[m + 1] /\ queue'[n] = queue[n + 1]
        BY <1>1, Zenon
    <2>3. /\ queue[m + 1].conn # queue[n + 1].conn
          /\ Rivals(queue[m + 1].conn, queue[n + 1].conn) => sock[queue[m + 1].conn] # "open"
        BY <2>1, Zenon DEF QueueInv
    <2> QED BY <1>2, <2>2, <2>3, Zenon DEF Rivals
<1>7. ASSUME NEW n \in 1..Len(queue'), (IsOpen(n))', NEW j \in opened', Rivals(j, queue[n].conn)'
      PROVE  sock'[j] # "open"
    <2>1. 1 < n + 1 /\ n + 1 \in 1..Len(queue) /\ IsOpen(n + 1) /\ Rivals(j, queue[n + 1].conn)
        BY <1>1, <1>2, <1>3, <1>7 DEF Rivals
    <2>2. CASE j \in opened
        BY <2>1, <2>2, Zenon DEF QueueInv
    <2>3. CASE kind = "open" /\ j = i
        BY <1>1, <2>1, <2>3 DEF QueueInv, IsOpen
    <2> QED BY <2>2, <2>3, Zenon
<1> QED BY <1>4, <1>5, <1>6, <1>7, Zenon DEF QueueInv

\* The other steps of the traced processes: a socket moves on from open, to closed for good,
\* and what is posted is not an open event.
LEMMA QueueGrows ==
  ASSUME ConnInv, NEW i \in Conns, sock'[i] # "none", plan' = plan, opened' = opened,
         \A j \in Conns : /\ sock'[j] = "open" => sock[j] = "open"
                          /\ sock'[j] = "none" => sock[j] = "none"
                          /\ sock[j] = "closed" => sock'[j] = "closed",
         queue' = queue \/ Post("l7", i) \/ (Post("close", i) /\ sock'[i] = "closed")
  PROVE  QueueInv'
<1>0. TypeOK /\ QueueInv /\ Len(queue) \in Nat /\ \A n \in 1..Len(queue) : queue[n] \in Event
    <2>1. queue \in Seq(Event)
        BY Zenon DEF ConnInv, TypeOK, Event
    <2> QED BY <2>1 DEF ConnInv
<1>1. /\ Len(queue') = Len(queue) \/ Len(queue') = Len(queue) + 1
      /\ \A n \in 1..Len(queue) : queue'[n] = queue[n]
      /\ Len(queue') = Len(queue) + 1 =>
           /\ queue'[Len(queue) + 1].conn = i
           /\ queue'[Len(queue) + 1].kind = "l7" \/
              (queue'[Len(queue) + 1].kind = "close" /\ sock'[i] = "closed")
    <2>1. CASE queue' = queue
        BY <1>0, <2>1
    <2>2. CASE Post("l7", i)
        <3>1. /\ Len(queue') = Len(queue) + 1 /\ \A n \in 1..Len(queue) : queue'[n] = queue[n]
              /\ queue'[Len(queue) + 1] = [kind |-> "l7", conn |-> i]
            BY <1>0, <2>2, PostQueue, Zenon
        <3> QED BY <1>0, <2>2, <3>1
    <2>3. CASE Post("close", i) /\ sock'[i] = "closed"
        <3>1. /\ Len(queue') = Len(queue) + 1 /\ \A n \in 1..Len(queue) : queue'[n] = queue[n]
              /\ queue'[Len(queue) + 1] = [kind |-> "close", conn |-> i]
            BY <1>0, <2>3, PostQueue, Zenon
        <3> QED BY <1>0, <2>3, <3>1
    <2> QED BY <2>1, <2>2, <2>3, Zenon
<1>2. Fd' = Fd /\ Addr' = Addr
    BY Zenon DEF Fd, Addr
<1>3. ASSUME NEW n \in 1..Len(queue'), (IsOpen(n))'
      PROVE  n \in 1..Len(queue) /\ IsOpen(n) /\ queue'[n] = queue[n]
    BY <1>0, <1>1, <1>3 DEF IsOpen
<1>4. (\A j \in opened : sock[j] # "none")'
    BY <1>0, Zenon DEF QueueInv, TypeOK
<1>5. ASSUME NEW n \in 1..Len(queue')
      PROVE /\ sock'[queue'[n].conn] # "none"
            /\ queue'[n].kind = "close" => sock'[queue'[n].conn] = "closed"
            /\ (IsOpen(n))' => queue'[n].conn \notin opened'
    <2>1. CASE n \in 1..Len(queue)
        <3>1. queue[n].conn \in Conns /\ queue'[n] = queue[n]
            BY <1>0, <1>1, <2>1, Zenon DEF Event
        <3> QED BY <1>0, <1>3, <2>1, <3>1 DEF QueueInv
    <2>2. CASE n \notin 1..Len(queue)
        <3>1. n = Len(queue) + 1 /\ Len(queue') = Len(queue) + 1
            BY <1>0, <1>1, <2>2
        <3> QED BY <1>1, <1>3, <2>2, <3>1, Zenon
    <2> QED BY <2>1, <2>2, Zenon
<1>6. ASSUME NEW m \in 1..Len(queue'), NEW n \in 1..Len(queue'), m < n, (IsOpen(m))', (IsOpen(n))'
      PROVE /\ queue'[m].conn # queue'[n].conn
            /\ Rivals(queue[m].conn, queue[n].conn)' => sock'[queue'[m].conn] # "open"
    <2>1. queue[m].conn \in Conns
        BY <1>0, <1>3, <1>6, Zenon DEF Event
    <2> QED BY <1>0, <1>2, <1>3, <1>6, <2>1 DEF QueueInv, Rivals
<1>7. ASSUME NEW n \in 1..Len(queue'), (IsOpen(n))', NEW j \in opened', Rivals(j, queue[n].conn)'
      PROVE  sock'[j] # "open"
    BY <1>0, <1>2, <1>3, <1>7, SMTT(30) DEF QueueInv, TypeOK, Rivals
<1> QED BY <1>4, <1>5, <1>6, <1>7, Zenon DEF QueueInv

\* Every step keeps the order of the queue.
LEMMA QueueStep == ConnInv /\ [Next]_vars => QueueInv'
<1> SUFFICES ASSUME ConnInv, [Next]_vars PROVE QueueInv'
    BY Zenon
<1>0. TypeOK /\ QueueInv /\ Len(queue) \in Nat /\ \A n \in 1..Len(queue) : queue[n] \in Event
    <2>1. queue \in Seq(Event)
        BY Zenon DEF ConnInv, TypeOK, Event
    <2> QED BY <2>1 DEF ConnInv
<1> USE <1>0
<1>1. ASSUME NEW i \in Conns, Connect(i) PROVE QueueInv'
    <2>1. /\ Len(queue') = Len(queue) + 1 /\ \A n \in 1..Len(queue) : queue'[n] = queue[n]
          /\ queue'[Len(queue) + 1] = [kind |-> "open", conn |-> i]
        BY <1>1, PostQueue, Zenon DEF Connect
    <2>2. Fd' = Fd /\ Addr' = Addr
        BY <1>1, Zenon DEF Connect, Fd, Addr
    <2>3. /\ sock[i] = "none" /\ i \notin opened /\ opened' = opened
          /\ \A n \in 1..Len(queue) : queue[n].conn # i
          /\ \A j \in Conns : sock'[j] = IF j = i THEN "open" ELSE sock[j]
        BY <1>1, Zenon DEF Connect, QueueInv, TypeOK
    <2>4. \A j \in Conns : Rivals(j, i) => sock[j] # "open" /\ j # i
        BY <1>1, Zenon DEF Connect, Rivals
    <2>5. \A n \in 1..Len(queue) : (IsOpen(n))' <=> IsOpen(n)
        BY <2>1, Zenon DEF IsOpen
    <2>6. \A n \in 1..Len(queue') : n \in 1..Len(queue) \/ n = Len(queue) + 1
        BY <2>1
    <2>7. (\A j \in opened : sock[j] # "none")'
        BY <2>3, Zenon DEF QueueInv, TypeOK
    <2>8. ASSUME NEW n \in 1..Len(queue')
          PROVE /\ sock'[queue'[n].conn] # "none"
                /\ queue'[n].kind = "close" => sock'[queue'[n].conn] = "closed"
                /\ (IsOpen(n))' => queue'[n].conn \notin opened'
        <3>1. CASE n \in 1..Len(queue)
            <4>1. queue[n].conn \in Conns
                BY <3>1, Zenon DEF Event
            <4> QED BY <2>1, <2>3, <2>5, <3>1, <4>1 DEF QueueInv
        <3>2. CASE n = Len(queue) + 1
            BY <2>1, <2>3, <3>2
        <3> QED BY <2>6, <3>1, <3>2, Zenon
    <2>9. ASSUME NEW m \in 1..Len(queue'), NEW n \in 1..Len(queue'), m < n, (IsOpen(m))', (IsOpen(n))'
          PROVE /\ queue'[m].conn # queue'[n].conn
                /\ Rivals(queue[m].conn, queue[n].conn)' => sock'[queue'[m].conn] # "open"
        <3>1. m \in 1..Len(queue) /\ queue[m].conn \in Conns /\ queue[m].conn # i /\ IsOpen(m)
            BY <2>1, <2>3, <2>5, <2>9, SMTT(30) DEF Event
        <3>2. CASE n \in 1..Len(queue)
            BY <2>1, <2>2, <2>3, <2>5, <2>9, <3>1, <3>2 DEF QueueInv, Rivals
        <3>3. CASE n = Len(queue) + 1
            BY <2>1, <2>2, <2>3, <2>4, <3>1, <3>3 DEF Rivals
        <3> QED BY <2>6, <3>2, <3>3, Zenon
    <2>10. ASSUME NEW n \in 1..Len(queue'), (IsOpen(n))', NEW j \in opened', Rivals(j, queue[n].conn)'
           PROVE  sock'[j] # "open"
        <3>1. j \in Conns /\ j # i
            BY <2>3, Zenon DEF TypeOK
        <3>2. CASE n \in 1..Len(queue)
            BY <2>1, <2>2, <2>3, <2>5, <2>10, <3>1, <3>2, SMTT(30) DEF QueueInv, Rivals
        <3>3. CASE n = Len(queue) + 1
            BY <2>1, <2>2, <2>3, <2>4, <2>10, <3>1, <3>3 DEF Rivals
        <3> QED BY <2>6, <3>2, <3>3, Zenon
    <2> QED BY <2>7, <2>8, <2>9, <2>10, Zenon DEF QueueInv
<1>2. ASSUME NEW i \in Conns, PeerClose(i) PROVE QueueInv'
    BY <1>2, QueueGrows, Zenon DEF PeerClose, TypeOK
<1>3. ASSUME NEW i \in Conns, Close(i) PROVE QueueInv'
    BY <1>3, QueueGrows, Zenon DEF Close, TypeOK
<1>4. ASSUME NEW i \in Conns, Data(i) PROVE QueueInv'
    BY <1>4, QueueGrows, Zenon DEF Data
<1>5. ASSUME NEW i \in Conns, OnEvent(i) PROVE QueueInv'
    <2>1. CASE OpenRefused(i)
        BY <2>1, QueuePopped, Zenon DEF OpenRefused, kernelVars
    <2>2. CASE Open(i)
        BY <2>2, QueuePopped, Zenon DEF Open, kernelVars
    <2>3. CASE OnClose(i)
        BY <2>3, QueuePopped, Zenon DEF OnClose, kernelVars
    <2>4. CASE L7Dropped(i) \/ L7Observed(i)
        BY <2>4, QueuePopped, Zenon DEF L7Dropped, L7Observed, kernelVars
    <2> QED BY <1>5, <2>1, <2>2, <2>3, <2>4, Zenon DEF OnEvent
<1>6. CASE Tick \/ FlushHttpBodies \/ GcClosedConnections \/ Gc \/ UNCHANGED vars
    <2>1. UNCHANGED <<plan, sock, queue, opened>>
        BY <1>6, Zenon DEF Tick, FlushHttpBodies, GcClosedConnections, Gc, vars, kernelVars, histories
    <2> QED BY <2>1, SMTT(30) DEF QueueInv, IsOpen, Rivals, Fd, Addr
<1> QED BY <1>1, <1>2, <1>3, <1>4, <1>5, <1>6, Zenon DEF Next, Traced

\* The indexes are only read as long as the plan and what is registered do not change: a step
\* that changes none of them, and takes no response out of sight, keeps IndexInv.
LEMMA IndexKept ==
  ASSUME IndexInv, TypeOK, UNCHANGED <<plan, opened, indexes, histories>>,
         \A i \in Conns : /\ closed[i] = Never => closed'[i] = Never
                          /\ closed[i] > Grace => closed'[i] > Grace
                          /\ Holds(i)' => Holds(i),
         bodyHolders' = bodyHolders
  PROVE  IndexInv'
  BY SMTT(30) DEF IndexInv, TypeOK, indexes, histories, Fds, Addrs, Fd, Addr

\* Every step keeps the facts about the indexes.
LEMMA IndexStep == ConnInv /\ [Next]_vars => IndexInv'
<1> SUFFICES ASSUME ConnInv, [Next]_vars PROVE IndexInv'
    OBVIOUS
<1>0. TypeOK /\ IndexInv /\ None \notin Conns /\ Grace \in Nat
    BY ConnsAssumption, TimesAssumption, Zenon DEF ConnInv
<1> USE <1>0
<1>1. CASE Traced \/ UNCHANGED vars
    <2>1. UNCHANGED <<plan, opened, indexes, histories, closed, bodyVars>>
        BY <1>1, Zenon DEF Traced, Connect, PeerClose, Close, Data, vars, kernelVars, histories
    <2> QED BY <2>1, IndexKept, Zenon DEF bodyVars, Holds
<1>2. ASSUME NEW i \in Conns, OpenRefused(i) \/ L7Dropped(i) PROVE IndexInv'
    BY <1>2, IndexKept, Zenon DEF OpenRefused, L7Dropped, kernelVars, bodyVars, histories, Holds
<1>3. ASSUME NEW i \in Conns, Open(i) PROVE IndexInv'
    <2>1. Fd' = Fd /\ Addr' = Addr /\ Fds' = Fds /\ Addrs' = Addrs /\ Fd[i] \in Fds /\ Addr[i] \in Addrs
        BY <1>3, Keys, Zenon DEF Open, kernelVars, Fds, Addrs, Fd, Addr
    <2>2. /\ held' = held /\ bodyHolders' = bodyHolders /\ collected' = collected /\ missed' = missed
          /\ opened' = opened \union {i} /\ byTs' = byTs \union {i}
        BY <1>3, Zenon DEF Open, bodyVars, histories
    <2>3. i \notin opened
        <3>1. queue[1] = [kind |-> "open", conn |-> i] /\ 1 \in 1..Len(queue)
            BY <1>3, HandleQueue, SMTT(30) DEF Open
        <3> QED BY <3>1 DEF ConnInv, QueueInv, IsOpen
    <2>4. (\A a \in Addrs : active[a] # None => active[a] \in byTs /\ Addr[active[a]] = a)'
        BY <1>3, <2>1, <2>2, Zenon DEF Open, IndexInv, TypeOK
    <2>5. (\A f \in Fds : byPidFd[f] # None => byPidFd[f] \in byTs /\ Fd[byPidFd[f]] = f)'
        BY <1>3, <2>1, <2>2, Zenon DEF Open, IndexInv, TypeOK
    <2>6. byPidFd[Fd[i]] \in byTs \/ byPidFd[Fd[i]] = None
        BY <2>1, Zenon DEF IndexInv
    <2>7. (\A j \in Conns \ opened : closed[j] = Never /\ ~Holds(j))'
        BY <1>3, <2>2, <2>6 DEF Open, IndexInv, TypeOK, Holds
    <2>8. (\A j \in byTs : Holds(j) => j \in bodyHolders)'
        BY <2>2, <2>3, Zenon DEF IndexInv, TypeOK, Holds
    <2>9. (\A j \in opened \ collected : j \notin byTs => closed[j] > Grace)'
        BY <1>3, <2>2, <2>6, SMTT(30) DEF Open, IndexInv, TypeOK
    <2>10. missed' \subseteq opened' \ byTs'
        BY <2>2, <2>3 DEF IndexInv
    <2> QED BY <2>4, <2>5, <2>7, <2>8, <2>9, <2>10, Zenon DEF IndexInv
<1>4. ASSUME NEW i \in Conns, OnClose(i) PROVE IndexInv'
    <2>1. UNCHANGED <<plan, opened, active, byPidFd, byTs, collected, missed, held, bodyHolders>>
        BY <1>4, Zenon DEF OnClose, kernelVars, indexes, bodyVars, histories
    <2>2. \A j \in Conns : closed'[j] = closed[j] \/ (j = i /\ i \in byTs)
        BY <1>4, Keys, SMTT(30) DEF OnClose, IndexInv, TypeOK
    <2>3. (\A j \in Conns \ opened : closed[j] = Never /\ ~Holds(j))'
        BY <2>1, <2>2, SMTT(30) DEF IndexInv, TypeOK, Holds
    <2>4. (\A j \in opened \ collected : j \notin byTs => closed[j] > Grace)'
        BY <2>1, <2>2 DEF IndexInv, TypeOK
    <2> QED BY <2>1, <2>3, <2>4 DEF IndexInv, Holds, Fds, Addrs, Fd, Addr
<1>5. ASSUME NEW i \in Conns, L7Observed(i) PROVE IndexInv'
    <2>1. UNCHANGED <<plan, opened, active, byPidFd, byTs, collected, missed, closed>>
        BY <1>5, Zenon DEF L7Observed, kernelVars, indexes, histories
    <2>2. Lookup(i) = i /\ i \in opened
        BY <1>5, Keys DEF L7Observed, Lookup, IndexInv, TypeOK
    <2>3. PICK h : /\ held' = [held EXCEPT ![i] = h]
                   /\ bodyHolders' = IF h = NoHold THEN bodyHolders ELSE bodyHolders \union {i}
        BY <1>5, <2>2, Zenon DEF L7Observed
    <2>4. \A j \in Conns : held'[j] = IF j = i THEN h ELSE held[j]
        BY <2>3, Zenon DEF TypeOK
    <2>5. (\A j \in byTs : Holds(j) => j \in bodyHolders)'
        BY <2>1, <2>3, <2>4, Zenon DEF IndexInv, TypeOK, Holds
    <2>6. (\A j \in Conns \ opened : closed[j] = Never /\ ~Holds(j))'
        BY <2>1, <2>2, <2>4, Zenon DEF IndexInv, Holds
    <2> QED BY <2>1, <2>5, <2>6 DEF IndexInv, Fds, Addrs, Fd, Addr
<1>6. CASE Tick
    <2>1. UNCHANGED <<plan, opened, indexes, histories, bodyHolders>>
        BY <1>6, Zenon DEF Tick, kernelVars
    <2>2. ASSUME NEW i \in Conns
          PROVE  /\ closed[i] = Never => closed'[i] = Never
                 /\ closed[i] > Grace => closed'[i] > Grace
                 /\ Holds(i)' => Holds(i)
        <3>1. closed'[i] = Older(closed[i], GcInterval) /\ closed[i] \in Ages(GcInterval + 1)
            BY <1>6, Zenon DEF Tick, TypeOK
        <3>2. /\ closed[i] = Never => closed'[i] = Never
              /\ closed[i] > Grace => closed'[i] > Grace
            BY <3>1, TimesAssumption, SMTT(30) DEF Older, Ages, Never
        <3>3. held[i] = NoHold => held'[i] = NoHold
            BY <1>6 DEF Tick, NoHold, Older
        <3> QED BY <3>2, <3>3, Zenon DEF Holds
    <2> QED BY <2>1, <2>2, IndexKept, Zenon
<1>7. CASE FlushHttpBodies
    <2>1. UNCHANGED <<plan, opened, active, byPidFd, byTs, collected, missed, closed>>
        BY <1>7, Zenon DEF FlushHttpBodies, kernelVars, indexes, histories
    <2>2. \A j \in Conns : held'[j] = IF j \in bodyHolders THEN Flushed(j) ELSE held[j]
        BY <1>7, Zenon DEF FlushHttpBodies
    <2>3. \A j \in Conns : ~Holds(j) => Flushed(j) = NoHold
        BY Zenon DEF Holds, Flushed
    <2>4. (\A j \in byTs : Holds(j) => j \in bodyHolders)'
        BY <1>7, <2>1, <2>2, Zenon DEF FlushHttpBodies, IndexInv, TypeOK, Holds
    <2>5. (\A j \in Conns \ opened : closed[j] = Never /\ ~Holds(j))'
        BY <2>1, <2>2, <2>3, Zenon DEF IndexInv, Holds
    <2> QED BY <2>1, <2>4, <2>5 DEF IndexInv, Fds, Addrs, Fd, Addr
<1>8. ASSUME NEW S \in SUBSET Conns, Forget(S), UNCHANGED <<plan, opened>>
      PROVE  /\ (\A a \in Addrs : active[a] # None => active[a] \in byTs /\ Addr[active[a]] = a)'
             /\ (\A f \in Fds : byPidFd[f] # None => byPidFd[f] \in byTs /\ Fd[byPidFd[f]] = f)'
    <2>1. Fd' = Fd /\ Addr' = Addr /\ Fds' = Fds /\ Addrs' = Addrs
        BY <1>8, Zenon DEF Fds, Addrs, Fd, Addr
    <2>2. \A a \in Addrs : active'[a] # None => active[a] # None /\ active[a] \notin S /\ active'[a] = active[a]
        BY <1>8, Zenon DEF Forget
    <2>3. \A f \in Fds : byPidFd'[f] # None => byPidFd[f] # None /\ byPidFd[f] \notin S /\ byPidFd'[f] = byPidFd[f]
        BY <1>8, Zenon DEF Forget
    <2>4. byTs' = byTs \ S
        BY <1>8, Zenon DEF Forget
    <2>5. \A a \in Addrs : active'[a] # None => active'[a] \in byTs' /\ Addr[active'[a]] = a
        BY <2>2, <2>4, Zenon DEF IndexInv
    <2>6. \A f \in Fds : byPidFd'[f] # None => byPidFd'[f] \in byTs' /\ Fd[byPidFd'[f]] = f
        BY <2>3, <2>4, Zenon DEF IndexInv
    <2> QED BY <2>1, <2>5, <2>6, Zenon
<1>9. CASE GcClosedConnections
    <2> DEFINE superseded == byTs \ Current
               expired == {i \in Current \union superseded : closed[i] > Grace}
    <2>1. /\ held' = [i \in Conns |-> IF i \in expired THEN Flushed(i) ELSE held[i]]
          /\ bodyHolders' = bodyHolders \ expired
          /\ Forget(expired)
          /\ closed' = [i \in Conns |-> IF i \in superseded /\ closed[i] = Never THEN 0 ELSE closed[i]]
          /\ UNCHANGED <<plan, opened, collected, missed>>
        BY <1>9, Zenon DEF GcClosedConnections, kernelVars, histories
    <2>2. expired \in SUBSET Conns /\ superseded \subseteq opened
        BY Zenon DEF Current, TypeOK
    <2>3. \A i \in expired : closed[i] > Grace
        BY Zenon
    <2> HIDE DEF superseded, expired
    <2>4. byTs' = byTs \ expired
        BY <2>1, Zenon DEF Forget
    <2>5. \A j \in Conns : ~Holds(j) => Flushed(j) = NoHold
        BY DEF Holds, Flushed
    <2>6. \A j \in Conns : ~Holds(j) => ~Holds(j)'
        BY <2>1, <2>5, Zenon DEF Holds
    <2>7. (\A j \in Conns \ opened : closed[j] = Never /\ ~Holds(j))'
        BY <2>1, <2>2, <2>6, Zenon DEF IndexInv
    <2>8. (\A j \in byTs : Holds(j) => j \in bodyHolders)'
        BY <2>1, <2>4, <2>6, Zenon DEF IndexInv, TypeOK
    <2>9. \A j \in Conns : closed[j] > Grace => closed'[j] > Grace
        BY <2>1, SMTT(30) DEF Never
    <2>10. (\A j \in opened \ collected : j \notin byTs => closed[j] > Grace)'
        BY <2>1, <2>3, <2>4, <2>9, Zenon DEF IndexInv, TypeOK
    <2>11. missed' \subseteq opened' \ byTs'
        BY <2>1, <2>4, Zenon DEF IndexInv
    <2> QED BY <1>8, <2>1, <2>2, <2>7, <2>8, <2>10, <2>11, Zenon DEF IndexInv
<1>10. CASE Gc
    <2>1. PICK gone \in SUBSET Conns :
            /\ Forget(gone) /\ collected' = collected \union gone
            /\ missed' \subseteq missed \union gone /\ gone \subseteq Current
        BY <1>10, GcFacts, Zenon
    <2>2. UNCHANGED <<plan, opened, closed, held, bodyHolders>>
        BY <1>10, Zenon DEF Gc, kernelVars, bodyVars
    <2>3. byTs' = byTs \ gone
        BY <2>1, Zenon DEF Forget
    <2>4. (\A j \in opened \ collected : j \notin byTs => closed[j] > Grace)'
        BY <2>1, <2>2, <2>3, Zenon DEF IndexInv
    <2>5. gone \subseteq opened
        BY <2>1, Keys DEF Current, IndexInv, TypeOK
    <2>6. missed' \subseteq opened' \ byTs'
        BY <2>1, <2>2, <2>3, <2>5, Zenon DEF IndexInv
    <2> QED BY <1>8, <2>1, <2>2, <2>3, <2>4, <2>6, Zenon DEF IndexInv, Holds
<1> QED BY <1>1, <1>2, <1>3, <1>4, <1>5, <1>6, <1>7, <1>9, <1>10, Zenon DEF Next, OnEvent

\* An established connection keeps its place in the indexes: the open event of a rival finds its
\* socket given up, its own close event comes when the socket is closed, and the sweeps leave
\* current connections that do not count as closed.
InPlace(i) ==
  /\ closed[i] = Never
  /\ active[Addr[i]] \in {i, None} /\ byPidFd[Fd[i]] \in {i, None}
  /\ i \in missed \/ (active[Addr[i]] = i /\ byPidFd[Fd[i]] = i /\ i \in byTs)
LEMMA EstablishedStep == ConnInv /\ [Next]_vars => EstablishedIsOpen'
<1> SUFFICES ASSUME ConnInv, [Next]_vars,
                    NEW i \in opened', sock'[i] = "open"
             PROVE  InPlace(i)'
    BY Zenon DEF EstablishedIsOpen, InPlace
<1>0. /\ TypeOK /\ QueueInv /\ IndexInv /\ EstablishedIsOpen /\ None \notin Conns
      /\ Grace \in Nat /\ GcInterval \in Nat
      /\ i \in Conns /\ Fd[i] \in Fds /\ Addr[i] \in Addrs
    BY TypeStep, ConnsAssumption, TimesAssumption, Keys, Zenon DEF ConnInv, TypeOK
<1> USE <1>0
<1>1. CASE Traced \/ UNCHANGED vars
    <2>1. UNCHANGED <<plan, opened, active, byPidFd, byTs, closed, missed>>
        BY <1>1, Zenon DEF Traced, Connect, PeerClose, Close, Data, vars, kernelVars, indexes, histories
    <2>2. sock[i] # "none"
        BY <2>1, Zenon DEF QueueInv
    <2>3. sock[i] = "open"
        BY <1>1, <2>2, SMTT(30) DEF Traced, Connect, PeerClose, Close, Data, vars, kernelVars, TypeOK
    <2> QED BY <2>1, <2>3, Zenon DEF EstablishedIsOpen, InPlace, Fd, Addr
<1>2. ASSUME NEW j \in Conns, OpenRefused(j) \/ L7Dropped(j) \/ L7Observed(j)
      PROVE  UNCHANGED <<plan, sock, opened, active, byPidFd, byTs, missed, closed>>
    BY <1>2, Zenon DEF OpenRefused, L7Dropped, L7Observed, kernelVars, indexes, histories
<1>3. ASSUME NEW j \in Conns, Open(j)
      PROVE  InPlace(i)'
    <2>1. Fd' = Fd /\ Addr' = Addr /\ sock' = sock /\ missed' = missed /\ Fd[j] \in Fds /\ Addr[j] \in Addrs
        BY <1>3, Keys, Zenon DEF Open, kernelVars, histories, Fd, Addr
    <2>2. queue[1] = [kind |-> "open", conn |-> j] /\ 1 \in 1..Len(queue)
        BY <1>3, HandleQueue, SMTT(30) DEF Open
    <2>3. j \notin opened /\ \A k \in opened : Rivals(k, j) => sock[k] # "open"
        BY <2>2, SMTT(30) DEF QueueInv, IsOpen
    <2>4. byPidFd[Fd[j]] # None => byPidFd[Fd[j]] \in opened /\ Fd[byPidFd[Fd[j]]] = Fd[j]
        BY <2>1, Zenon DEF IndexInv, TypeOK
    <2>5. CASE i = j
        <3>1. closed[i] = Never /\ byPidFd[Fd[j]] # j
            BY <2>3, <2>4, <2>5, SMTT(30) DEF IndexInv
        <3>2. active'[Addr[i]] = i /\ byPidFd'[Fd[i]] = i /\ i \in byTs' /\ closed'[i] = Never
            BY <1>3, <2>1, <2>5, <3>1, Zenon DEF Open, TypeOK
        <3> QED BY <2>1, <3>2, Zenon DEF InPlace
    <2>6. CASE i # j
        <3>1. i \in opened /\ sock[i] = "open" /\ ~Rivals(i, j)
            BY <1>3, <2>1, <2>3, <2>6, Zenon DEF Open
        <3>2. Fd[i] # Fd[j] /\ Addr[i] # Addr[j] /\ byPidFd[Fd[j]] # i
            BY <2>4, <2>6, <3>1, Zenon DEF Rivals
        <3>3. /\ active'[Addr[i]] = active[Addr[i]] /\ byPidFd'[Fd[i]] = byPidFd[Fd[i]]
              /\ i \in byTs => i \in byTs'
              /\ closed'[i] = closed[i]
            BY <1>3, <3>2, Zenon DEF Open, TypeOK
        <3>4. InPlace(i)
            BY <3>1, Zenon DEF EstablishedIsOpen, InPlace
        <3> QED BY <2>1, <3>3, <3>4, Zenon DEF InPlace
    <2> QED BY <2>5, <2>6, Zenon
<1>4. ASSUME NEW j \in Conns, OnClose(j)
      PROVE  UNCHANGED <<plan, sock, opened, active, byPidFd, byTs, missed>> /\ closed'[i] = closed[i]
    <2>1. UNCHANGED <<plan, sock, opened, active, byPidFd, byTs, missed>>
        BY <1>4, Zenon DEF OnClose, kernelVars, indexes, histories
    <2>2. queue[1] = [kind |-> "close", conn |-> j] /\ 1 \in 1..Len(queue)
        BY <1>4, HandleQueue, SMTT(30) DEF OnClose
    <2>3. i # j
        BY <2>1, <2>2, SMTT(30) DEF QueueInv
    <2> QED BY <1>4, <2>1, <2>3, Zenon DEF OnClose, TypeOK
<1>5. CASE Tick \/ FlushHttpBodies
    <2>1. UNCHANGED <<plan, sock, opened, active, byPidFd, byTs, missed>>
        BY <1>5, Zenon DEF Tick, FlushHttpBodies, kernelVars, indexes, histories
    <2>2. InPlace(i)
        BY <2>1, Zenon DEF EstablishedIsOpen, InPlace
    <2>3. closed'[i] = Never
        BY <1>5, <2>2, Zenon DEF Tick, FlushHttpBodies, Older, InPlace
    <2> QED BY <2>1, <2>2, <2>3, Zenon DEF InPlace, Fd, Addr
<1>6. CASE GcClosedConnections
    <2>1. UNCHANGED <<plan, sock, opened, missed>>
        BY <1>6, Zenon DEF GcClosedConnections, kernelVars, histories
    <2>2. InPlace(i) /\ closed[i] = Never
        BY <2>1, Zenon DEF EstablishedIsOpen, InPlace
    <2>3. ~(closed[i] > Grace)
        BY <2>2, SMTT(30) DEF Never
    <2>4. i \in byTs => i \in Current
        BY <2>2, Zenon DEF InPlace, IndexInv, Current
    <2>5. closed'[i] = Never
        BY <1>6, <2>2, <2>4, Zenon DEF GcClosedConnections
    <2>6. /\ active'[Addr[i]] \in {active[Addr[i]], None} /\ byPidFd'[Fd[i]] \in {byPidFd[Fd[i]], None}
          /\ active[Addr[i]] = i => active'[Addr[i]] = i
          /\ byPidFd[Fd[i]] = i => byPidFd'[Fd[i]] = i
          /\ i \in byTs => i \in byTs'
        BY <1>6, <2>3, Zenon DEF GcClosedConnections, Forget
    <2> QED BY <2>1, <2>2, <2>5, <2>6, Zenon DEF InPlace, Fd, Addr
<1>7. CASE Gc
    <2>1. UNCHANGED <<plan, sock, opened, closed>>
        BY <1>7, Zenon DEF Gc, kernelVars
    <2>2. InPlace(i) /\ closed[i] = Never /\ sock[i] = "open"
        BY <2>1, Zenon DEF EstablishedIsOpen, InPlace
    <2>3. PICK gone \in SUBSET Conns :
            /\ Forget(gone) /\ missed \subseteq missed'
            /\ \A j \in gone : closed[j] > GcInterval \/ j \in missed' \/ Addr[j] \notin Established
        BY <1>7, GcFacts, Zenon
    <2>4. ~(closed[i] > GcInterval) /\ Addr[i] \in Established
        BY <2>1, <2>2 DEF Never, Established
    <2>5. i \in gone => i \in missed'
        BY <2>3, <2>4, Zenon
    <2>6. /\ active'[Addr[i]] \in {active[Addr[i]], None} /\ byPidFd'[Fd[i]] \in {byPidFd[Fd[i]], None}
          /\ i \notin gone => /\ active[Addr[i]] = i => active'[Addr[i]] = i
                              /\ byPidFd[Fd[i]] = i => byPidFd'[Fd[i]] = i
                              /\ i \in byTs => i \in byTs'
        BY <2>3, Zenon DEF Forget
    <2>7. active'[Addr[i]] \in {i, None} /\ byPidFd'[Fd[i]] \in {i, None}
        BY <2>2, <2>6, Zenon DEF InPlace
    <2>8. i \in missed' \/ (active'[Addr[i]] = i /\ byPidFd'[Fd[i]] = i /\ i \in byTs')
        BY <2>2, <2>3, <2>5, <2>6, Zenon DEF InPlace
    <2> QED BY <2>1, <2>2, <2>7, <2>8, Zenon DEF InPlace, Fd, Addr
<1>8. CASE UNCHANGED <<plan, sock, opened, active, byPidFd, byTs, missed>> /\ closed'[i] = closed[i]
    BY <1>8, Zenon DEF EstablishedIsOpen, InPlace, Fd, Addr
<1> QED BY <1>1, <1>2, <1>3, <1>4, <1>5, <1>6, <1>7, <1>8, Zenon DEF Next, OnEvent

\* Nothing is open, registered or held at the start.
LEMMA ConnInit == Init => ConnInv
<1> SUFFICES ASSUME Init PROVE ConnInv
    BY Zenon
<1>1. TypeOK
    BY ConnsAssumption, TimesAssumption, SMTT(30)
    DEF Init, TypeOK, SocketState, Ages, Never, NoHold, Event
<1>2. QueueInv
    BY DEF Init, QueueInv
<1>3. IndexInv
    BY Zenon DEF Init, IndexInv, Holds
<1>4. EstablishedIsOpen
    BY Zenon DEF Init, EstablishedIsOpen
<1> QED BY <1>1, <1>2, <1>3, <1>4, Zenon DEF Init, ConnInv

\* The invariant holds in every reachable state.
THEOREM ConnInvariant == Spec => []ConnInv
<1>1. ConnInv /\ [Next]_vars => ConnInv'
    BY TypeStep, QueueStep, IndexStep, EstablishedStep, Zenon DEF ConnInv
<1> QED BY <1>1, ConnInit, PTL DEF Spec

\* Whatever activeConnections or connectionsByPidFd leads to is in connectionsByPidFdTs, and a
\* registered connection that holds a response back is one of the bodyHolders.
THEOREM IndexesAlwaysAgree == Spec => []IndexesAgree
<1>1. ConnInv => IndexesAgree
    <2> SUFFICES ASSUME ConnInv PROVE IndexesAgree
        BY Zenon
    <2>1. \A i \in Conns : i # None /\ Fd[i] \in Fds /\ Addr[i] \in Addrs
        BY ConnsAssumption, Keys, Zenon
    <2> QED BY <2>1 DEF ConnInv, IndexInv, IndexesAgree
<1> QED BY <1>1, ConnInvariant, PTL

\* onL7Request finds the connection of an event until closedConnectionGrace after its close,
\* however its descriptor and addresses were reused, unless Container.gc removed it.
THEOREM FoundDuringGrace == Spec => []FoundUntilGrace
<1>1. ConnInv => FoundUntilGrace
    <2> SUFFICES ASSUME ConnInv, NEW i \in opened \ collected, closed[i] <= Grace
                 PROVE  Lookup(i) = i
        BY Zenon DEF FoundUntilGrace
    <2>1. i \in Conns /\ closed[i] \in Int /\ Grace \in Int
        BY TimesAssumption DEF ConnInv, TypeOK, Ages, Never
    <2>2. i \in byTs
        BY <2>1 DEF ConnInv, IndexInv
    <2> QED BY <2>2, Zenon DEF Lookup
<1> QED BY <1>1, ConnInvariant, PTL

\* A registered connection whose socket is established does not count as closed, its descriptor
\* and its addresses lead to no other connection, and it is current in all three indexes unless
\* a gc read the sockets of its namespace without it.
THEOREM EstablishedStaysOpen == Spec => []EstablishedIsOpen
<1>1. ConnInv => EstablishedIsOpen
    BY Zenon DEF ConnInv
<1> QED BY <1>1, ConnInvariant, PTL
============================================================================
