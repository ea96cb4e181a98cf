---------------------------- MODULE ConnTracking ----------------------------
(* The kernel's map of connections, active_connections, of one process: what     *)
(* connect, accept and close do to it, the data system calls that find their     *)
(* connection in it or make up for one that is missing, and the two sweeps of     *)
(* user space that delete what the kernel has left behind. Entries are found by  *)
(* descriptor, descriptors are reused, and the programs of different CPUs and     *)
(* the sweeps interleave. (tcp/state.c, the entries of l7/l7.c,                    *)
(* connection_sweep.go, Registry.gcActiveConnections)                             *)
EXTENDS Naturals, FiniteSets, Sequences

CONSTANTS Fds,        \* descriptors of the process
          MaxSockets, \* bound: sockets it has in the course of a behaviour
          MaxEntries  \* bound: entries made in the course of a behaviour

ASSUME ConnTrackingAssumption ==
  IsFiniteSet(Fds) /\ MaxSockets \in Nat \ {0} /\ MaxEntries \in Nat \ {0}

Nothing == 0                  \* a descriptor that is not in use, no socket
File    == MaxSockets + 1     \* a descriptor of something that is not a socket
Sockets == 1..MaxSockets
Stamps  == 1..MaxEntries
NoEntry == [ts |-> 0]
NoCall  == [op |-> "none"]

VARIABLES
  fdt,        \* what each descriptor is: Nothing, a socket or File
  how,        \* how the process got the socket of each descriptor; "given" also when it
              \* failed to connect or its entry was deleted while it was open
  made,       \* the number of sockets so far
  connecting, \* connection_id_by_socket: sockets in SYN_SENT, with their descriptors, and
              \* whether these have been closed since
  closing,    \* descriptors in close(), after its tracepoint
  conns,      \* active_connections: its values are struct connection (told: history, the
              \* open event has been sent, or dropped by a full ring)
  announcing, \* opens that inet_sock_set_state has marked as sent and not yet sent
  call,       \* a data system call in progress in one of the threads
  sweep,      \* sweepClosedConnections: the entries found stale, the one looked up again, and
              \* how many entries had been made by then
  stale,      \* gcActiveConnections: the descriptors found closed
  owner,      \* history: the socket of each entry ever made; its length is the clock
  out         \* the events sent by the last step

descriptors == <<fdt, how, closing>>
sockets     == <<made, connecting>>
maps        == <<conns, announcing>>
sweeps      == <<sweep, stale>>
vars        == <<descriptors, sockets, maps, call, sweeps, owner, out>>

IsSocket(fd) == fdt[fd] \in Sockets
IsOpen(s)    == \E fd \in Fds : fdt[fd] = s
Clock        == Len(owner)
Quiet        == out' = {}

OpenEvent(ts, s, left) == [what |-> "open", ts |-> ts, of |-> s, left |-> left]
Opens(events) == {e \in events : e.what = "open"}

-----------------------------------------------------------------------------
(* The map. *)

\* A new struct connection. conn_timestamp: time stamps are never equal.
NewConnection(inbound, sk) ==
  [ts |-> Clock + 1, inbound |-> inbound, sent |-> FALSE, told |-> FALSE, sk |-> sk]

\* An entry for data on a descriptor without one: its socket from the descriptor, for a TCP
\* socket.
Fallback(fd, inbound) ==
  NewConnection(inbound, IF IsSocket(fd) /\ how[fd] # "other" THEN fdt[fd] ELSE Nothing)

\* bpf_map_update_elem with BPF_ANY: an entry left behind is replaced.
Put(fd, s, e) ==
  /\ Clock < MaxEntries
  /\ owner' = Append(owner, s)
  /\ conns' = [conns EXCEPT ![fd] = e]

\* An entry is deleted; it may be that of the socket that is open on the descriptor.
Delete(fd) ==
  /\ conns' = [conns EXCEPT ![fd] = NoEntry]
  /\ how' = IF conns[fd] # NoEntry /\ IsSocket(fd) /\ owner[conns[fd].ts] = fdt[fd] /\ how[fd] # "other"
            THEN [how EXCEPT ![fd] = "given"] ELSE how

\* The least recently used entry is evicted when the map is full, which other processes can
\* bring about at any time.
Evict(fd) ==
  /\ conns[fd] # NoEntry
  /\ Delete(fd)
  /\ UNCHANGED <<fdt, closing, sockets, announcing, call, sweeps, owner>>
  /\ Quiet

-----------------------------------------------------------------------------
(* Descriptors and sockets. *)

NewSocket(fd, h) ==
  /\ fdt[fd] = Nothing
  /\ made < MaxSockets
  /\ made' = made + 1
  /\ fdt' = [fdt EXCEPT ![fd] = made + 1]
  /\ how' = [how EXCEPT ![fd] = h]

\* Mutant: BPF_NOEXIST, connect keeps an entry that was left behind.
ConnectKeeping(fd) ==
  /\ NewSocket(fd, "connect")
  /\ connecting' = connecting \cup {[s |-> made + 1, fd |-> fd, left |-> FALSE]}
  /\ Clock < MaxEntries
  /\ owner' = Append(owner, made + 1)
  /\ conns' = IF conns[fd] = NoEntry THEN [conns EXCEPT ![fd] = NewConnection(FALSE, made + 1)] ELSE conns
  /\ UNCHANGED <<closing, announcing, call, sweeps>>
  /\ Quiet

\* connect() of a TCP socket: CLOSE to SYN_SENT, in the context of the task.
Connect(fd) ==
  /\ NewSocket(fd, "connect")
  /\ connecting' = connecting \cup {[s |-> made + 1, fd |-> fd, left |-> FALSE]}
  /\ Put(fd, made + 1, NewConnection(FALSE, made + 1))
  /\ UNCHANGED <<closing, announcing, call, sweeps>>
  /\ Quiet

\* connect() of another socket (UDP): an entry at the end of the call, unless there is one.
ConnectOther(fd) ==
  /\ NewSocket(fd, "other")
  /\ IF conns[fd] = NoEntry
     THEN Put(fd, made + 1, NewConnection(FALSE, Nothing))
     ELSE UNCHANGED <<conns, owner>>
  /\ UNCHANGED <<connecting, closing, announcing, call, sweeps>>
  /\ Quiet

\* A second connect() of a TCP socket, which returns 0 once the connection that the first one
\* started is made: an entry that was lost meanwhile is made by the end of the call.
ConnectAgain(fd) ==
  /\ IsSocket(fd) /\ how[fd] \in {"connect", "given"}
  /\ conns[fd] = NoEntry
  /\ Put(fd, fdt[fd], NewConnection(FALSE, Nothing))
  /\ UNCHANGED <<descriptors, sockets, announcing, call, sweeps>>
  /\ Quiet

\* accept(): the entry replaces any other; with the socket of inet_csk_accept, which may have
\* been missed, the connection is announced at once.
Accept(fd) ==
  /\ NewSocket(fd, "accept")
  /\ \/ /\ Put(fd, made + 1, [NewConnection(TRUE, made + 1) EXCEPT !.sent = TRUE, !.told = TRUE])
        /\ out' = {OpenEvent(Clock + 1, made + 1, FALSE)}
     \/ Put(fd, made + 1, NewConnection(TRUE, Nothing)) /\ Quiet
  /\ UNCHANGED <<connecting, closing, announcing, call, sweeps>>

\* A connected socket gets a descriptor in a way that no program follows: dup, a socket
\* passed by another process or inherited from it.
Receive(fd) ==
  /\ NewSocket(fd, "given")
  /\ UNCHANGED <<connecting, closing, maps, call, sweeps, owner>>
  /\ Quiet

OpenFile(fd) ==
  /\ fdt[fd] = Nothing
  /\ fdt' = [fdt EXCEPT ![fd] = File]
  /\ UNCHANGED <<how, closing, sockets, maps, call, sweeps, owner>>
  /\ Quiet

\* SYN_SENT to ESTABLISHED: the entry is found by the descriptor the socket was given.
Established(c) ==
  /\ connecting' = connecting \ {c}
  /\ IF conns[c.fd] # NoEntry /\ ~conns[c.fd].sent
     THEN /\ conns' = [conns EXCEPT ![c.fd].sent = TRUE]
          /\ announcing' = announcing \cup {OpenEvent(conns[c.fd].ts, c.s, c.left)}
     ELSE UNCHANGED <<conns, announcing>>
  /\ UNCHANGED <<descriptors, made, call, sweeps, owner>>
  /\ Quiet

\* The event of Established is sent.
Announce(a) ==
  /\ announcing' = announcing \ {a}
  /\ out' = {a}
  /\ conns' = [fd \in Fds |-> IF conns[fd].ts = a.ts THEN [conns[fd] EXCEPT !.told = TRUE] ELSE conns[fd]]
  /\ UNCHANGED <<descriptors, sockets, call, sweeps, owner>>

\* SYN_SENT to CLOSE: the connection failed, or was given up while it was being made.
Refused(c) ==
  /\ connecting' = connecting \ {c}
  /\ Delete(c.fd)
  /\ UNCHANGED <<fdt, closing, made, announcing, call, sweeps, owner>>
  /\ Quiet

\* Either of them is skipped when a program is running on the CPU.
Skipped(c) ==
  /\ connecting' = connecting \ {c}
  /\ how' \in {how, [fd \in Fds |-> IF fdt[fd] = c.s THEN "given" ELSE how[fd]]}
  /\ UNCHANGED <<fdt, closing, made, maps, call, sweeps, owner>>
  /\ Quiet

\* A descriptor is closed: a call on it may end on another socket.
Leave(fd) ==
  /\ call' = IF call # NoCall /\ call.fd = fd THEN [call EXCEPT !.sock = Nothing] ELSE call
  /\ connecting' = {IF c.s = fdt[fd] THEN [c EXCEPT !.left = TRUE] ELSE c : c \in connecting}

\* close(): the tracepoint at its entry reports the close and deletes the entry, ...
EnterClose(fd) ==
  /\ fdt[fd] # Nothing /\ fd \notin closing
  /\ closing' = closing \cup {fd}
  /\ conns' = [conns EXCEPT ![fd] = NoEntry]
  /\ out' = IF conns[fd] = NoEntry THEN {}
            ELSE {[what |-> "close", ts |-> conns[fd].ts, sock |-> fdt[fd], told |-> conns[fd].told]}
  /\ Leave(fd)
  /\ UNCHANGED <<fdt, how, made, announcing, sweeps, owner>>

\* ... and the descriptor is free later.
ReleaseFd(fd) ==
  /\ fd \in closing
  /\ closing' = closing \ {fd}
  /\ fdt' = [fdt EXCEPT ![fd] = Nothing]
  /\ how' = [how EXCEPT ![fd] = "none"]
  /\ UNCHANGED <<sockets, maps, call, sweeps, owner>>
  /\ Quiet

\* A descriptor is closed without close(): dup2, close_range, exec, or the process exits.
CloseSilently(fd) ==
  /\ fdt[fd] # Nothing /\ fd \notin closing
  /\ fdt' = [fdt EXCEPT ![fd] = Nothing]
  /\ how' = [how EXCEPT ![fd] = "none"]
  /\ Leave(fd)
  /\ UNCHANGED <<closing, made, maps, sweeps, owner>>
  /\ Quiet

-----------------------------------------------------------------------------
(* Data system calls. *)

\* What emit_connection_open_lazy can send for entry e: the addresses are read from the memory
\* of its socket, which may have been freed or be another socket's when it is not open. Those
\* of a socket that failed to connect may have been reset, and then nothing is sent.
LazyOpens(e) ==
  {{OpenEvent(e.ts, s, FALSE)} : s \in IF IsOpen(e.sk) THEN {e.sk} ELSE 1..made}
    \cup (IF \E fd \in Fds : fdt[fd] = e.sk /\ how[fd] # "given" THEN {} ELSE {{}})

\* Mutant: data does not announce a connection whose open was missed.
AnnouncedNever(e, new) == {{}}

\* A connection whose open has not been sent is announced by its first data; an inbound one
\* only when its entry is new.
Announced(e, new) ==
  IF e.sk # Nothing /\ ~e.sent /\ (~e.inbound \/ new) THEN LazyOpens(e) ELSE {{}}

\* The L7 record of a call on socket s with the time stamp of entry e.
Record(s, e) == [what |-> "data", ts |-> e.ts, sock |-> s, told |-> e.told]

\* The connection of the data: the entry of the descriptor, or one made now. The data of
\* receivers is recorded at once.
Find(fd, inbound, receivers) ==
  LET new == conns[fd] = NoEntry
      e   == IF new THEN Fallback(fd, inbound) ELSE conns[fd]
  IN  \E open \in Announced(e, new) :
        LET entry == IF open = {} THEN e ELSE [e EXCEPT !.sent = TRUE, !.told = TRUE] IN
        /\ out' = open \cup {Record(s, entry) : s \in receivers}
        /\ IF new THEN Put(fd, fdt[fd], entry)
           ELSE conns' = [conns EXCEPT ![fd] = entry] /\ UNCHANGED owner

\* A data system call is entered; without an entry it is only followed if it is one for
\* sockets (socketOnly).
Enter(op, fd, socketOnly) ==
  /\ call = NoCall /\ fdt[fd] # Nothing
  /\ conns[fd] # NoEntry \/ socketOnly
  /\ call' = [op |-> op, fd |-> fd, sock |-> IF fd \in closing THEN Nothing ELSE fdt[fd],
              ts |-> IF op = "read" THEN 0 ELSE conns'[fd].ts]

\* sys_enter_write and its relatives find the connection at their entry, ...
EnterWrite(fd, socketOnly) ==
  /\ Find(fd, FALSE, {})
  /\ Enter("write", fd, socketOnly)
  /\ UNCHANGED <<descriptors, sockets, announcing, sweeps>>

\* ... and the time stamp of the record is read from it at the end. An LRU map gives the
\* memory of a deleted entry to the next one.
SendRecord ==
  /\ call # NoCall /\ call.op = "write"
  /\ out' \in IF conns[call.fd].ts = call.ts THEN {{Record(call.sock, conns[call.fd])}}
              ELSE {{Record(call.sock, [ts |-> call.ts, told |-> TRUE])}}
                   \cup {{Record(call.sock, conns[fd])} : fd \in {f \in Fds : conns[f] # NoEntry}}
  /\ call' = NoCall
  /\ UNCHANGED <<descriptors, sockets, maps, sweeps, owner>>

\* A read finds its connection when it returns; one for sockets fails on anything else.
EnterRead(fd, socketOnly) ==
  /\ socketOnly => IsSocket(fd)
  /\ Enter("read", fd, socketOnly)
  /\ UNCHANGED <<descriptors, sockets, maps, sweeps, owner>>
  /\ Quiet

\* A read that returned data: the entry is that of the descriptor now.
ExitRead ==
  /\ call # NoCall /\ call.op = "read"
  /\ Find(call.fd, TRUE, {call.sock})
  /\ call' = NoCall
  /\ UNCHANGED <<descriptors, sockets, announcing, sweeps>>

\* A read that failed or found the end, or a write without a record.
EndCall ==
  /\ call # NoCall
  /\ call' = NoCall
  /\ UNCHANGED <<descriptors, sockets, maps, sweeps, owner>>
  /\ Quiet

-----------------------------------------------------------------------------
(* The sweeps. They walk the map entry by entry. *)

NotLooked == [found |-> {}, looked |-> NoEntry, at |-> 0]

\* Mutant: any open descriptor keeps the entry.
OpenDescriptor(fd) == fdt[fd] # Nothing

isSocketOpen(fd) == IsSocket(fd)

\* findStaleConnections.
FindStale(fd) ==
  /\ sweep.looked = NoEntry /\ \A x \in sweep.found : x.fd # fd
  /\ conns[fd] # NoEntry /\ ~isSocketOpen(fd)
  /\ sweep' = [sweep EXCEPT !.found = @ \cup {[fd |-> fd, ts |-> conns[fd].ts]}]
  /\ UNCHANGED <<descriptors, sockets, maps, call, stale, owner>>
  /\ Quiet

\* Mutant: the time stamp is not compared.
LookUpAny(x) ==
  /\ sweep.looked = NoEntry
  /\ sweep' = IF conns[x.fd] # NoEntry
              THEN [sweep EXCEPT !.looked = x, !.at = Clock]
              ELSE [sweep EXCEPT !.found = @ \ {x}]
  /\ UNCHANGED <<descriptors, sockets, maps, call, stale, owner>>
  /\ Quiet

\* deleteStaleConnections: the entry must be the one that was found, ...
LookUp(x) ==
  /\ sweep.looked = NoEntry
  /\ sweep' = IF conns[x.fd].ts = x.ts
              THEN [sweep EXCEPT !.looked = x, !.at = Clock]
              ELSE [sweep EXCEPT !.found = @ \ {x}]
  /\ UNCHANGED <<descriptors, sockets, maps, call, stale, owner>>
  /\ Quiet

\* ... and is deleted by its descriptor.
DeleteStale ==
  /\ sweep.looked # NoEntry
  /\ Delete(sweep.looked.fd)
  /\ sweep' = [NotLooked EXCEPT !.found = sweep.found \ {sweep.looked}]
  /\ UNCHANGED <<fdt, closing, sockets, announcing, call, stale, owner>>
  /\ Quiet

\* Registry.gcActiveConnections: descriptors that are closed, ...
GcFind(fd) ==
  /\ conns[fd] # NoEntry /\ fdt[fd] = Nothing
  /\ stale' = stale \cup {fd}
  /\ UNCHANGED <<descriptors, sockets, maps, call, sweep, owner>>
  /\ Quiet

\* ... whose entries are deleted whatever they are by now.
GcDelete(fd) ==
  /\ fd \in stale
  /\ stale' = stale \ {fd}
  /\ Delete(fd)
  /\ UNCHANGED <<fdt, closing, sockets, announcing, call, sweep, owner>>
  /\ Quiet

-----------------------------------------------------------------------------
(* The agent starts with an entry for a connection that was open when it looked: the      *)
(* programs are attached after that, so by now the descriptor may be free, or a file, or   *)
(* another socket, and a connection may be open that has no entry.                         *)
Init ==
  /\ \E fd \in Fds, what \in {Nothing, File, 1}, was \in {Nothing, 1}, has, inbound \in BOOLEAN :
       /\ fdt = [f \in Fds |-> IF f = fd THEN what ELSE Nothing]
       /\ how = [f \in Fds |-> IF f = fd /\ what = 1 THEN "given" ELSE "none"]
       /\ made = IF what = 1 THEN 1 ELSE 0
       /\ conns = [f \in Fds |->
            IF f = fd /\ has
            THEN [ts |-> 1, inbound |-> inbound, sent |-> FALSE, told |-> FALSE, sk |-> Nothing]
            ELSE NoEntry]
       /\ owner = IF has THEN <<was>> ELSE << >>
       /\ was = 1 => has /\ what = 1
  /\ connecting = {} /\ closing = {} /\ announcing = {} /\ call = NoCall
  /\ sweep = NotLooked /\ stale = {} /\ out = {}

Sweep ==
  \/ \E fd \in Fds : FindStale(fd)
  \/ \E x \in sweep.found : LookUp(x)
  \/ DeleteStale

Next ==
  \/ \E fd \in Fds : \/ Connect(fd) \/ ConnectOther(fd) \/ ConnectAgain(fd) \/ Accept(fd) \/ Receive(fd) \/ OpenFile(fd)
                    \/ EnterClose(fd) \/ ReleaseFd(fd) \/ CloseSilently(fd) \/ Evict(fd)
                    \/ GcFind(fd) \/ GcDelete(fd)
  \/ \E c \in connecting : Established(c) \/ Refused(c) \/ Skipped(c)
  \/ \E a \in announcing : Announce(a)
  \/ \E fd \in Fds, socketOnly \in BOOLEAN : EnterWrite(fd, socketOnly) \/ EnterRead(fd, socketOnly)
  \/ SendRecord \/ ExitRead \/ EndCall
  \/ Sweep

\* The goroutine of the sweep runs and finds every entry that stays.
Fairness == WF_vars(Sweep)

Spec == Init /\ [][Next]_vars /\ Fairness

-----------------------------------------------------------------------------
Entries == [ts : Stamps, inbound : BOOLEAN, sent : BOOLEAN, told : BOOLEAN, sk : {Nothing} \cup Sockets]

\* Type correctness: entries have a time stamp that was given out, and an open that was sent
\* is marked as sent.
TypeOK ==
  /\ fdt \in [Fds -> {Nothing, File} \cup Sockets] /\ closing \cup stale \subseteq Fds
  /\ how \in [Fds -> {"none", "connect", "accept", "other", "given"}]
  /\ connecting \subseteq [s : 1..made, fd : Fds, left : BOOLEAN]
  /\ conns \in [Fds -> Entries \cup {NoEntry}]
  /\ owner \in Seq({Nothing, File} \cup Sockets)
  /\ \A fd \in Fds : conns[fd] # NoEntry => conns[fd].ts <= Clock /\ (conns[fd].told => conns[fd].sent)
  /\ call = NoCall \/ call.fd \in Fds

\* The process connected or accepted socket s, and its entry was not deleted under it.
Followed(s, ways) == \E fd \in Fds : fdt[fd] = s /\ how[fd] \in ways

\* L7 records and close events carry the time stamp of a connection of the very socket they
\* are about, however its descriptor was used and closed before, as long as the descriptor
\* is not closed during the system call (the comment of BPF_ANY in trace_enter_write).
StampIsOwn ==
  /\ TypeOK
  /\ \A e \in out \ Opens(out) : Followed(e.sock, {"connect", "accept"}) => owner[e.ts] = e.sock

\* An open event of a connection whose socket is open has the addresses of that socket,
\* unless it has those of a socket that was closed while it was connecting.  An L7 record of
\* a connection that the process opened comes after the open event, or while
\* inet_sock_set_state is about to send it: also when the program was skipped for the
\* connection (the comment of emit_connection_open_lazy).
OpenIsTrue ==
  /\ \A o \in Opens(out) : IsOpen(owner[o.ts]) => o.of = owner[o.ts] \/ o.left
  /\ \A e \in out :
       e.what = "data" /\ Followed(e.sock, {"connect"}) => e.told \/ \E a \in announcing : a.ts = e.ts

\* The sweep deletes the entry of an open connection only when the entry was made after the
\* sweep had looked the stale one up again (deleteStaleConnections).
SweepSpares ==
  [][sweep.looked # NoEntry /\ sweep' # sweep /\ how' # how => conns[sweep.looked.fd].ts > sweep.at]_vars

\* An entry whose descriptor is not a socket any more does not stay, whether the descriptor is
\* free or was given to something else (isSocketOpen).
StaleIsSwept == \A fd \in Fds : []<>(conns[fd] = NoEntry \/ IsSocket(fd))

=============================================================================
