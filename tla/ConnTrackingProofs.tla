------------------------- MODULE ConnTrackingProofs -------------------------
(* Proofs that the events of the connection map are about the right sockets, for   *)
(* any number of descriptors, sockets and entries: time stamps belong to the        *)
(* socket of the record (StampIsOwn), opens are true and come before the data        *)
(* (OpenIsTrue), and the sweep spares what it looked up again (SweepSpares).         *)
EXTENDS ConnTracking, TLAPS

Anything == {Nothing, File} \cup Sockets
Calls    == [op : {"read", "write"}, fd : Fds, sock : Anything, ts : 0..MaxEntries]
Watched(fd) == how[fd] \in {"connect", "accept"}
Pending(ts) == \E a \in announcing : a.ts = ts

\* What TypeOK leaves open: sockets are numbered as they are made and are each on one
\* descriptor, whatever is not a socket is not followed, a descriptor that is being closed is
\* not free, and the time stamps that the sweep and the opens under way hold have been given
\* out.
Typed ==
  /\ TypeOK
  /\ made \in 0..MaxSockets
  /\ \A fd \in Fds : IF IsSocket(fd) THEN fdt[fd] <= made /\ how[fd] # "none" ELSE how[fd] = "none"
  /\ \A f, g \in Fds : IsSocket(f) /\ fdt[f] = fdt[g] => f = g
  /\ \A fd \in closing : fdt[fd] # Nothing
  /\ Clock <= MaxEntries
  /\ announcing \subseteq [what : {"open"}, ts : 1..Clock, of : Sockets, left : BOOLEAN]
  /\ call \in {NoCall} \cup Calls
  /\ sweep \in [found : SUBSET [fd : Fds, ts : 1..Clock], looked : {NoEntry} \cup [fd : Fds, ts : 1..Clock], at : 0..Clock]
  /\ sweep.looked # NoEntry => sweep.looked \in sweep.found

\* The entry of a socket that was connected or accepted was made for it, and so was any entry
\* that points to a socket.
EntryInv ==
  \A fd \in Fds : conns[fd] # NoEntry =>
    /\ Watched(fd) => owner[conns[fd].ts] = fdt[fd]
    /\ conns[fd].sk # Nothing => conns[fd].sk = owner[conns[fd].ts]

\* A socket that was connected and is not being closed has an entry, and its open has been
\* sent, or is about to be, or will be by its first data.
ToldInv ==
  \A fd \in Fds : how[fd] = "connect" /\ fd \notin closing =>
    /\ conns[fd] # NoEntry
    /\ \/ conns[fd].told
       \/ Pending(conns[fd].ts)
       \/ ~conns[fd].sent /\ ~conns[fd].inbound /\ conns[fd].sk # Nothing

\* A socket in SYN_SENT is on the descriptor that connection_id_by_socket has for it, and the
\* entry there is its own, or the descriptor has been closed; the opens that come of it are
\* those of the sockets of their entries.
ConnectingInv ==
  /\ \A c \in connecting : ~c.left =>
       /\ fdt[c.fd] = c.s /\ c.fd \notin closing
       /\ conns[c.fd] # NoEntry => owner[conns[c.fd].ts] = c.s
  /\ \A a \in announcing : a.of = owner[a.ts] \/ a.left

\* A call whose descriptor has not been closed since is on the socket it was entered on, and a
\* write that is followed still has the entry it found.
CallInv ==
  call # NoCall /\ call.sock # Nothing =>
    /\ fdt[call.fd] = call.sock /\ call.fd \notin closing
    /\ call.op = "write" /\ Watched(call.fd) =>
         conns[call.fd] # NoEntry /\ conns[call.fd].ts = call.ts
    /\ call.op = "write" /\ how[call.fd] = "connect" => conns[call.fd].told \/ Pending(call.ts)

\* What was found stale is not the entry of a socket that is followed, and stays as it is, or
\* is gone, or has been replaced by an entry that was made after it was looked up again.
SweepInv ==
  /\ \A x \in sweep.found : conns[x.fd].ts = x.ts => ~Watched(x.fd)
  /\ sweep.looked # NoEntry =>
       conns[sweep.looked.fd].ts > sweep.at \/ conns[sweep.looked.fd].ts \in {0, sweep.looked.ts}

\* No two entries have the same time stamp, and one whose open is about to be sent is marked
\* as sent.
StampInv ==
  /\ \A f, g \in Fds : conns[f].ts # 0 /\ conns[f].ts = conns[g].ts => f = g
  /\ \A a \in announcing, fd \in Fds : conns[fd].ts = a.ts => conns[fd].sent

Inv == Typed /\ EntryInv /\ ToldInv /\ ConnectingInv /\ CallInv /\ SweepInv /\ StampInv

-----------------------------------------------------------------------------
(* Lemmas about the values. *)

\* An entry is told from none by its time stamp.
LEMMA EntryShape ==
  ASSUME NEW e \in Entries \cup {NoEntry}
  PROVE  /\ e.ts \in 0..MaxEntries
         /\ e = NoEntry <=> e.ts = 0
         /\ e # NoEntry => e \in Entries
BY ConnTrackingAssumption DEF Entries, NoEntry, Stamps

\* Marking an entry as sent, or told, changes nothing else in it.
LEMMA Marked ==
  ASSUME NEW e \in Entries,
         NEW u \in {[e EXCEPT !.sent = TRUE], [e EXCEPT !.told = TRUE], [e EXCEPT !.sent = TRUE, !.told = TRUE]}
  PROVE  /\ u \in Entries /\ u.ts = e.ts /\ u.sk = e.sk /\ u.inbound = e.inbound
         /\ e.sent => u.sent
         /\ e.told => u.told
         /\ u = [e EXCEPT !.sent = TRUE] => u.sent /\ u.told = e.told
         /\ u # [e EXCEPT !.sent = TRUE] => u.told
         /\ u = [e EXCEPT !.told = TRUE] => u.sent = e.sent
         /\ u = [e EXCEPT !.sent = TRUE, !.told = TRUE] => u.sent /\ u.told
BY Zenon DEF Entries

\* A new entry is one of the next time stamp.
LEMMA NewEntry ==
  ASSUME Typed, Clock < MaxEntries, NEW inbound \in BOOLEAN, NEW s \in {Nothing} \cup Sockets
  PROVE  LET e == NewConnection(inbound, s)
         IN  /\ e \in Entries /\ e.ts = Clock + 1 /\ e.sk = s /\ e.inbound = inbound
             /\ ~e.sent /\ ~e.told
<1>1. Clock \in Nat
  BY DEF Typed, TypeOK, Clock
<1> QED BY <1>1, ConnTrackingAssumption DEF NewConnection, Entries, Stamps

\* A call in progress is told from none by its kind.
LEMMA CallShape ==
  ASSUME Typed
  PROVE  /\ call # NoCall => call \in Calls /\ call.op \in {"read", "write"} /\ call.fd \in Fds
         /\ call # NoCall => call.sock \in Anything
BY Zenon DEF Typed, Calls, NoCall

\* The history of an entry never changes.
LEMMA OwnerGrows ==
  ASSUME Typed, NEW s \in Anything, owner' = Append(owner, s)
  PROVE  /\ Clock \in Nat /\ Clock' = Clock + 1
         /\ owner' \in Seq(Anything)
         /\ \A i \in 1..Clock : owner'[i] = owner[i]
         /\ owner'[Clock + 1] = s
BY DEF Typed, TypeOK, Clock, Anything

\* A time stamp in use has been given out.
LEMMA StampsGiven ==
  ASSUME Typed
  PROVE  /\ Clock \in Nat
         /\ \A fd \in Fds : /\ conns[fd] \in Entries \cup {NoEntry}
                            /\ conns[fd].ts \in 0..Clock
                            /\ conns[fd] = NoEntry <=> conns[fd].ts = 0
                            /\ conns[fd] # NoEntry => conns[fd] \in Entries /\ conns[fd].ts \in 1..Clock
<1>1. Clock \in Nat
  BY DEF Typed, TypeOK, Clock
<1>2. ASSUME NEW fd \in Fds
      PROVE  /\ conns[fd] \in Entries \cup {NoEntry}
             /\ conns[fd].ts \in 0..Clock
             /\ conns[fd] = NoEntry <=> conns[fd].ts = 0
             /\ conns[fd] # NoEntry => conns[fd] \in Entries /\ conns[fd].ts \in 1..Clock
  <2>1. conns[fd] \in Entries \cup {NoEntry}
    BY Zenon DEF Typed, TypeOK
  <2>2. conns[fd] # NoEntry => conns[fd].ts <= Clock
    BY Zenon DEF Typed, TypeOK
  <2> QED BY <1>1, <2>1, <2>2, EntryShape
<1> QED BY <1>1, <1>2, Zenon

-----------------------------------------------------------------------------
(* Lemmas about the operators of the map. *)

\* Put makes one entry, of the next time stamp, and leaves the others alone.
LEMMA PutFacts ==
  ASSUME Typed, NEW fd \in Fds, NEW s \in Anything, NEW e \in Entries, e.ts = Clock + 1,
         e.told => e.sent, Put(fd, s, e)
  PROVE  /\ Clock \in Nat /\ Clock' = Clock + 1 /\ Clock' <= MaxEntries
         /\ owner' \in Seq(Anything) /\ owner'[Clock + 1] = s
         /\ \A i \in 1..Clock : owner'[i] = owner[i]
         /\ conns' \in [Fds -> Entries \cup {NoEntry}] /\ conns'[fd] = e
         /\ \A f \in Fds \ {fd} : conns'[f] = conns[f]
         /\ \A f \in Fds : conns'[f] # NoEntry => conns'[f].ts <= Clock' /\ (conns'[f].told => conns'[f].sent)
<1>1. /\ Clock \in Nat /\ Clock' = Clock + 1
      /\ owner' \in Seq(Anything) /\ owner'[Clock + 1] = s
      /\ \A i \in 1..Clock : owner'[i] = owner[i]
  BY OwnerGrows, Zenon DEF Put
<1>2. Clock' <= MaxEntries
  BY <1>1, ConnTrackingAssumption DEF Put
<1>3. /\ conns' \in [Fds -> Entries \cup {NoEntry}] /\ conns'[fd] = e
      /\ \A f \in Fds \ {fd} : conns'[f] = conns[f]
  BY DEF Put, Typed, TypeOK
<1>4. ASSUME NEW f \in Fds, conns'[f] # NoEntry
      PROVE  conns'[f].ts <= Clock' /\ (conns'[f].told => conns'[f].sent)
  <2>1. CASE f = fd
    BY <1>1, <1>3, <2>1
  <2>2. CASE f # fd
    <3>1. conns[f].ts \in 0..Clock
      BY StampsGiven, Zenon
    <3>2. conns[f].told => conns[f].sent
      BY <1>3, <1>4, <2>2, Zenon DEF Typed, TypeOK
    <3> QED BY <1>1, <1>3, <2>2, <3>1, <3>2
  <2> QED BY <2>1, <2>2, Zenon
<1> QED BY <1>1, <1>2, <1>3, <1>4, Zenon

\* Delete takes one entry away. A socket whose entry it was is not followed any longer.
LEMMA DeleteFacts ==
  ASSUME Inv, NEW fd \in Fds, Delete(fd)
  PROVE  /\ conns' \in [Fds -> Entries \cup {NoEntry}] /\ conns'[fd] = NoEntry
         /\ \A f \in Fds \ {fd} : conns'[f] = conns[f] /\ how'[f] = how[f]
         /\ how' \in [Fds -> {"none", "connect", "accept", "other", "given"}]
         /\ how'[fd] \in {how[fd], "given"}
         /\ how'[fd] = "given" => how[fd] = "given" \/ IsSocket(fd)
         /\ conns[fd] # NoEntry => ~Watched(fd)'
<1>1. /\ conns' \in [Fds -> Entries \cup {NoEntry}] /\ conns'[fd] = NoEntry
      /\ \A f \in Fds \ {fd} : conns'[f] = conns[f] /\ how'[f] = how[f]
      /\ how' \in [Fds -> {"none", "connect", "accept", "other", "given"}]
      /\ how'[fd] \in {how[fd], "given"}
      /\ how'[fd] = "given" => how[fd] = "given" \/ IsSocket(fd)
  BY DEF Delete, Inv, Typed, TypeOK
<1>2. ASSUME conns[fd] # NoEntry PROVE ~Watched(fd)'
  <2>1. CASE Watched(fd)
    <3>1. owner[conns[fd].ts] = fdt[fd]
      BY <1>2, <2>1, Zenon DEF Inv, EntryInv
    <3>2. IsSocket(fd) /\ how[fd] # "other"
      BY <2>1, Zenon DEF Inv, Typed, Watched
    <3>3. how'[fd] = "given"
      BY <1>2, <3>1, <3>2 DEF Delete, Inv, Typed, TypeOK
    <3> QED BY <3>3, Zenon DEF Watched
  <2>2. CASE ~Watched(fd)
    BY <1>1, <2>2, Zenon DEF Watched
  <2> QED BY <2>1, <2>2, Zenon
<1> QED BY <1>1, <1>2, Zenon

\* A step that makes entries of new time stamps only, or takes entries away, and follows no
\* socket that it makes no entry for, keeps what the sweep has found.
LEMMA SweepKept ==
  ASSUME Inv, sweep' = sweep \/ (sweep'.found \subseteq sweep.found /\ sweep'.looked = NoEntry),
         \A fd \in Fds : \/ conns'[fd].ts = conns[fd].ts /\ (Watched(fd)' => Watched(fd))
                         \/ conns'[fd].ts \in {0, Clock + 1}
  PROVE  SweepInv'
<1>1. Clock \in Nat
  BY StampsGiven, Zenon DEF Inv
<1>2. ASSUME NEW x \in sweep'.found, conns'[x.fd].ts = x.ts PROVE ~Watched(x.fd)'
  <2>0. x \in sweep.found
    BY <1>2, Zenon
  <2>1. x.fd \in Fds /\ x.ts \in 1..Clock
    BY <2>0, Zenon DEF Inv, Typed
  <2>2. conns[x.fd].ts = x.ts => ~Watched(x.fd)
    BY <2>0, Zenon DEF Inv, SweepInv
  <2> QED BY <1>1, <1>2, <2>1, <2>2
<1>3. ASSUME sweep' = sweep, sweep.looked # NoEntry
      PROVE  conns'[sweep.looked.fd].ts > sweep.at \/ conns'[sweep.looked.fd].ts \in {0, sweep.looked.ts}
  <2>1. sweep.looked.fd \in Fds /\ sweep.at \in 0..Clock
    BY <1>3, Zenon DEF Inv, Typed
  <2>2. conns[sweep.looked.fd].ts > sweep.at \/ conns[sweep.looked.fd].ts \in {0, sweep.looked.ts}
    BY <1>3, Zenon DEF Inv, SweepInv
  <2> QED BY <1>1, <2>1, <2>2
<1> QED BY <1>2, <1>3, Zenon DEF SweepInv

\* A step that makes one entry of a new time stamp, marks one or takes one away, and adds no
\* open, keeps the time stamps distinct.
LEMMA StampKept ==
  ASSUME Inv, announcing' \subseteq announcing, NEW fd \in Fds,
         \A f \in Fds \ {fd} : conns'[f] = conns[f],
         \/ conns'[fd].ts \in {0, Clock + 1}
         \/ conns'[fd].ts = conns[fd].ts /\ (conns[fd] # NoEntry /\ conns[fd].sent => conns'[fd].sent)
  PROVE  StampInv'
<1>1. /\ Clock \in Nat
      /\ \A f \in Fds : /\ conns[f].ts \in 0..Clock
                        /\ conns[f] = NoEntry <=> conns[f].ts = 0
  BY StampsGiven, Zenon DEF Inv
<1>2. \A a \in announcing : a.ts \in 1..Clock
  BY Zenon DEF Inv, Typed
<1>3. ASSUME NEW f \in Fds, NEW g \in Fds, conns'[f].ts # 0, conns'[f].ts = conns'[g].ts PROVE f = g
  BY <1>1, <1>3 DEF Inv, StampInv
<1>4. ASSUME NEW a \in announcing, NEW f \in Fds, conns'[f].ts = a.ts PROVE conns'[f].sent
  <2>1. conns'[f].ts # 0 /\ conns'[f].ts # Clock + 1
    BY <1>1, <1>2, <1>4
  <2>2. conns[f].ts = a.ts
    BY <1>4, <2>1, Zenon
  <2>3. conns[f].sent /\ conns[f] # NoEntry
    BY <1>1, <2>1, <2>2, <1>4, Zenon DEF Inv, StampInv
  <2> QED BY <2>1, <2>3, Zenon
<1> QED BY <1>3, <1>4, Zenon DEF StampInv

-----------------------------------------------------------------------------
(* Types, in three parts. *)

SocketsTyped ==
  /\ fdt \in [Fds -> Anything] /\ closing \subseteq Fds
  /\ how \in [Fds -> {"none", "connect", "accept", "other", "given"}]
  /\ made \in 0..MaxSockets
  /\ connecting \subseteq [s : 1..made, fd : Fds, left : BOOLEAN]
  /\ \A fd \in Fds : IF IsSocket(fd) THEN fdt[fd] <= made /\ how[fd] # "none" ELSE how[fd] = "none"
  /\ \A f, g \in Fds : IsSocket(f) /\ fdt[f] = fdt[g] => f = g
  /\ \A fd \in closing : fdt[fd] # Nothing

EntriesTyped ==
  /\ conns \in [Fds -> Entries \cup {NoEntry}]
  /\ owner \in Seq(Anything) /\ Clock <= MaxEntries
  /\ \A fd \in Fds : conns[fd] # NoEntry => conns[fd].ts <= Clock /\ (conns[fd].told => conns[fd].sent)
  /\ announcing \subseteq [what : {"open"}, ts : 1..Clock, of : Sockets, left : BOOLEAN]

RestTyped ==
  /\ stale \subseteq Fds
  /\ call \in {NoCall} \cup Calls
  /\ sweep \in [found : SUBSET [fd : Fds, ts : 1..Clock], looked : {NoEntry} \cup [fd : Fds, ts : 1..Clock], at : 0..Clock]
  /\ sweep.looked # NoEntry => sweep.looked \in sweep.found

\* Typed is the conjunction of the three.
LEMMA TypedParts ==
  Typed <=> SocketsTyped /\ EntriesTyped /\ RestTyped
<1>1. Typed => SocketsTyped
  BY Zenon DEF Typed, TypeOK, SocketsTyped, Anything
<1>2. Typed => EntriesTyped
  BY Zenon DEF Typed, TypeOK, EntriesTyped, Anything
<1>3. Typed => RestTyped
  BY Zenon DEF Typed, TypeOK, RestTyped
<1>4. RestTyped => call = NoCall \/ call.fd \in Fds
  BY Zenon DEF RestTyped, Calls
<1>5. SocketsTyped /\ EntriesTyped /\ RestTyped => TypeOK
  BY <1>4, Zenon DEF TypeOK, SocketsTyped, EntriesTyped, RestTyped, Anything
<1>6. SocketsTyped /\ EntriesTyped /\ RestTyped => Typed
  BY <1>5, Zenon DEF Typed, SocketsTyped, EntriesTyped, RestTyped
<1> QED BY <1>1, <1>2, <1>3, <1>6, Zenon

\* The same in the next state.
LEMMA TypedPartsNext ==
  Typed' <=> SocketsTyped' /\ EntriesTyped' /\ RestTyped'
BY TypedParts, PTL

\* What holds time stamps keeps its type when the clock goes on.
LEMMA RestKept ==
  ASSUME Typed, Clock' \in Nat, Clock <= Clock', call' \in {call, NoCall} \cup Calls, UNCHANGED sweeps
  PROVE  RestTyped'
<1>1. RestTyped /\ Clock \in Nat
  BY TypedParts, StampsGiven, Zenon
<1>2. \A i : i \in 1..Clock => i \in 1..Clock'
  BY <1>1
<1>3. \A x \in [fd : Fds, ts : 1..Clock] : x \in [fd : Fds, ts : 1..Clock']
  BY <1>2, Zenon
<1>4. sweep.at \in 0..Clock'
  BY <1>1 DEF RestTyped
<1>5. sweep \in [found : SUBSET [fd : Fds, ts : 1..Clock'], looked : {NoEntry} \cup [fd : Fds, ts : 1..Clock'], at : 0..Clock']
  BY <1>1, <1>3, <1>4, Zenon DEF RestTyped
<1> QED BY <1>1, <1>5, Zenon DEF RestTyped, sweeps, Calls

\* A new entry has the type of entries.
LEMMA PutTyped ==
  ASSUME Typed, NEW fd \in Fds, NEW s \in Anything, NEW e \in Entries, e.ts = Clock + 1,
         e.told => e.sent, Put(fd, s, e), announcing' = announcing
  PROVE  EntriesTyped'
<1>1. /\ Clock \in Nat /\ Clock' = Clock + 1 /\ Clock' <= MaxEntries
      /\ owner' \in Seq(Anything)
      /\ conns' \in [Fds -> Entries \cup {NoEntry}]
      /\ \A f \in Fds : conns'[f] # NoEntry => conns'[f].ts <= Clock' /\ (conns'[f].told => conns'[f].sent)
  BY PutFacts, Zenon
<1>2. announcing' \subseteq [what : {"open"}, ts : 1..Clock', of : Sockets, left : BOOLEAN]
  BY <1>1 DEF Typed
<1> QED BY <1>1, <1>2, Zenon DEF EntriesTyped, Entries, Anything

\* A new socket has the next number, on a descriptor that was not in use.
LEMMA NewSocketFacts ==
  ASSUME Typed, NEW fd \in Fds, NEW h \in {"connect", "accept", "other", "given"}, NewSocket(fd, h)
  PROVE  /\ made \in Nat /\ made + 1 \in Sockets /\ made' = made + 1
         /\ fdt' \in [Fds -> Anything] /\ fdt[fd] = Nothing /\ fdt'[fd] = made + 1
         /\ how' \in [Fds -> {"none", "connect", "accept", "other", "given"}] /\ how'[fd] = h
         /\ \A f \in Fds \ {fd} : fdt'[f] = fdt[f] /\ how'[f] = how[f] /\ fdt'[f] # made + 1
         /\ how[fd] = "none"
<1>1. made \in 0..MaxSockets /\ made < MaxSockets
  BY Zenon DEF Typed, NewSocket
<1>2. made \in Nat /\ made + 1 \in Sockets /\ made' = made + 1
  BY <1>1, ConnTrackingAssumption DEF NewSocket, Sockets
<1>3. /\ fdt' \in [Fds -> Anything] /\ fdt[fd] = Nothing /\ fdt'[fd] = made + 1
      /\ how' \in [Fds -> {"none", "connect", "accept", "other", "given"}] /\ how'[fd] = h
      /\ \A f \in Fds \ {fd} : fdt'[f] = fdt[f] /\ how'[f] = how[f]
  BY <1>2 DEF NewSocket, Typed, TypeOK, Anything
<1>4. ASSUME NEW f \in Fds \ {fd} PROVE fdt'[f] # made + 1
  BY <1>2, <1>3, ConnTrackingAssumption DEF Typed, IsSocket
<1>5. how[fd] = "none"
  BY <1>3, ConnTrackingAssumption DEF Typed, IsSocket, Sockets, Nothing
<1> QED BY <1>2, <1>3, <1>4, <1>5, Zenon

\* A new socket leaves the descriptors and sockets typed.
LEMMA NewSocketTyped ==
  ASSUME Typed, NEW fd \in Fds, NEW h \in {"connect", "accept", "other", "given"}, NewSocket(fd, h),
         closing' = closing,
         connecting' \subseteq connecting \cup {[s |-> made + 1, fd |-> fd, left |-> FALSE]}
  PROVE  SocketsTyped'
<1>1. /\ made \in Nat /\ made + 1 \in Sockets /\ made' = made + 1
      /\ fdt' \in [Fds -> Anything] /\ fdt'[fd] = made + 1
      /\ how' \in [Fds -> {"none", "connect", "accept", "other", "given"}] /\ how'[fd] = h
      /\ \A f \in Fds \ {fd} : fdt'[f] = fdt[f] /\ how'[f] = how[f] /\ fdt'[f] # made + 1
  BY NewSocketFacts, Zenon
<1>2. SocketsTyped
  BY TypedParts, Zenon
<1>3. ASSUME NEW c \in connecting' PROVE c \in [s : 1..made', fd : Fds, left : BOOLEAN]
  <2>1. made + 1 \in 1..made' /\ \A i \in 1..made : i \in 1..made'
    BY <1>1
  <2>2. CASE c \in connecting
    BY <1>2, <2>1, <2>2, Zenon DEF SocketsTyped
  <2>3. CASE c = [s |-> made + 1, fd |-> fd, left |-> FALSE]
    BY <2>1, <2>3, Zenon
  <2> QED BY <1>3, <2>2, <2>3, Zenon
<1>4. made' \in 0..MaxSockets
  BY <1>1, ConnTrackingAssumption DEF Sockets
<1>5. \A f \in Fds : IF fdt'[f] \in Sockets THEN fdt'[f] <= made' ELSE how'[f] = "none"
  BY <1>1, <1>2 DEF SocketsTyped, IsSocket, Sockets
<1>6. \A f, g \in Fds : fdt'[f] \in Sockets /\ fdt'[f] = fdt'[g] => f = g
  BY <1>1, <1>2 DEF SocketsTyped, IsSocket
<1>7. \A f \in closing : fdt'[f] # Nothing
  BY <1>1, <1>2 DEF SocketsTyped, Nothing, Sockets
<1> QED BY <1>1, <1>2, <1>3, <1>4, <1>5, <1>6, <1>7, Zenon DEF SocketsTyped, IsSocket, Anything, Sockets

-----------------------------------------------------------------------------
(* New sockets. *)

\* An entry for socket s, made when the clock stood at the time stamp before its own.
Own(e, s) == e \in Entries /\ e.ts = Clock + 1 /\ owner'[Clock + 1] = s /\ e.sk \in {Nothing, s}

\* A new socket that is followed gets an entry of its own, and no other part of the state
\* that is about an open socket is touched.
LEMMA NewSocketKeeps ==
  ASSUME Inv, NEW fd \in Fds, NEW h \in {"connect", "accept", "other", "given"}, NewSocket(fd, h),
         closing' = closing, announcing' = announcing, call' = call, sweep' = sweep,
         \A f \in Fds \ {fd} : conns'[f] = conns[f],
         \A i \in 1..Clock : owner'[i] = owner[i],
         \/ conns'[fd] = conns[fd] /\ h \in {"other", "given"} /\ connecting' = connecting
         \/ /\ Own(conns'[fd], made + 1)
            /\ h = "connect" => ~conns'[fd].sent /\ ~conns'[fd].inbound /\ conns'[fd].sk # Nothing
            /\ connecting' \subseteq connecting \cup {[s |-> made + 1, fd |-> fd, left |-> FALSE]}
  PROVE  EntryInv' /\ ToldInv' /\ ConnectingInv' /\ CallInv' /\ SweepInv' /\ StampInv'
<1>1. /\ made \in Nat /\ made + 1 \in Sockets /\ made' = made + 1
      /\ fdt' \in [Fds -> Anything] /\ fdt[fd] = Nothing /\ fdt'[fd] = made + 1
      /\ how' \in [Fds -> {"none", "connect", "accept", "other", "given"}] /\ how'[fd] = h
      /\ \A f \in Fds \ {fd} : fdt'[f] = fdt[f] /\ how'[f] = how[f] /\ fdt'[f] # made + 1
      /\ how[fd] = "none"
  BY NewSocketFacts, Zenon DEF Inv
<1>2. /\ Clock \in Nat
      /\ \A f \in Fds : conns[f] # NoEntry => conns[f] \in Entries /\ conns[f].ts \in 1..Clock
  BY StampsGiven, Zenon DEF Inv
<1>3. fd \notin closing
  BY <1>1, Zenon DEF Inv, Typed
<1>4. Own(conns'[fd], made + 1) => conns'[fd] # NoEntry
  BY <1>2, EntryShape DEF Own
<1>5. EntryInv'
  <2> SUFFICES ASSUME NEW f \in Fds, conns'[f] # NoEntry
               PROVE  /\ Watched(f)' => owner'[conns'[f].ts] = fdt'[f]
                      /\ conns'[f].sk # Nothing => conns'[f].sk = owner'[conns'[f].ts]
    BY Zenon DEF EntryInv
  <2>1. CASE f # fd
    <3>1. conns'[f] = conns[f] /\ how'[f] = how[f] /\ fdt'[f] = fdt[f] /\ owner'[conns[f].ts] = owner[conns[f].ts]
      BY <1>1, <1>2, <2>1
    <3> QED BY <2>1, <3>1, Zenon DEF Inv, EntryInv, Watched
  <2>2. CASE f = fd /\ conns'[fd] = conns[fd] /\ h \in {"other", "given"}
    <3>1. owner'[conns[f].ts] = owner[conns[f].ts]
      BY <1>2, <2>2, Zenon
    <3> QED BY <1>1, <2>2, <3>1 DEF Inv, EntryInv, Watched
  <2>3. CASE f = fd /\ Own(conns'[fd], made + 1)
    BY <1>1, <2>3, Zenon DEF Own
  <2> QED BY <2>1, <2>2, <2>3, Zenon
<1>6. ToldInv'
  <2> SUFFICES ASSUME NEW f \in Fds, how'[f] = "connect", f \notin closing
               PROVE  /\ conns'[f] # NoEntry
                      /\ \/ conns'[f].told
                         \/ Pending(conns'[f].ts)
                         \/ ~conns'[f].sent /\ ~conns'[f].inbound /\ conns'[f].sk # Nothing
    BY Zenon DEF ToldInv, Pending
  <2>1. CASE f # fd
    BY <1>1, <2>1 DEF Inv, ToldInv
  <2>2. CASE f = fd
    BY <1>1, <1>4, <2>2, Zenon
  <2> QED BY <2>1, <2>2, Zenon
<1>7. ConnectingInv'
  <2>1. ASSUME NEW c \in connecting', ~c.left
        PROVE  /\ fdt'[c.fd] = c.s /\ c.fd \notin closing
               /\ conns'[c.fd] # NoEntry => owner'[conns'[c.fd].ts] = c.s
    <3>1. CASE c \in connecting
      <4>1. c.fd \in Fds /\ c.s \in 1..made
        BY <3>1, Zenon DEF Inv, Typed, TypeOK
      <4>2. /\ fdt[c.fd] = c.s /\ c.fd \notin closing
            /\ conns[c.fd] # NoEntry => owner[conns[c.fd].ts] = c.s
        BY <2>1, <3>1, Zenon DEF Inv, ConnectingInv
      <4>3. c.fd # fd
        BY <1>1, <4>1, <4>2 DEF Nothing
      <4> QED BY <1>1, <1>2, <4>1, <4>2, <4>3
    <3>2. CASE c = [s |-> made + 1, fd |-> fd, left |-> FALSE] /\ Own(conns'[fd], made + 1)
      BY <1>1, <1>3, <3>2, Zenon DEF Own
    <3> QED BY <2>1, <3>1, <3>2, Zenon
  <2>2. ASSUME NEW a \in announcing PROVE a.of = owner'[a.ts] \/ a.left
    BY <1>2, Zenon DEF Inv, Typed, ConnectingInv
  <2> QED BY <2>1, <2>2, Zenon DEF ConnectingInv
<1>8. CallInv'
  <2> SUFFICES ASSUME call # NoCall, call.sock # Nothing
               PROVE  /\ fdt'[call.fd] = call.sock /\ call.fd \notin closing
                      /\ call.op = "write" /\ Watched(call.fd)' =>
                           conns'[call.fd] # NoEntry /\ conns'[call.fd].ts = call.ts
                      /\ call.op = "write" /\ how'[call.fd] = "connect" => conns'[call.fd].told \/ Pending(call.ts)
    BY Zenon DEF CallInv, Pending
  <2>1. call.fd \in Fds /\ fdt[call.fd] = call.sock
    BY CallShape, Zenon DEF Inv, CallInv
  <2>2. call.fd # fd
    BY <1>1, <2>1, Zenon
  <2> QED BY <1>1, <2>1, <2>2, Zenon DEF Inv, CallInv, Watched
<1>9. SweepInv'
  <2>1. ASSUME NEW f \in Fds
        PROVE  \/ conns'[f].ts = conns[f].ts /\ (Watched(f)' => Watched(f))
               \/ conns'[f].ts \in {0, Clock + 1}
    BY <1>1, Zenon DEF Own, Watched
  <2> QED BY <2>1, SweepKept, Zenon
<1>10. StampInv'
  <2>1. conns'[fd].ts \in {0, Clock + 1} \/ conns'[fd] = conns[fd]
    BY Zenon DEF Own
  <2> QED BY <2>1, StampKept, Zenon
<1> QED BY <1>5, <1>6, <1>7, <1>8, <1>9, <1>10, Zenon

\* The four ways to get a socket.
LEMMA ConnectStep ==
  ASSUME Inv, NEW fd \in Fds, Connect(fd)
  PROVE  Inv'
<1> DEFINE e == NewConnection(FALSE, made + 1)
<1>1. Typed /\ NewSocket(fd, "connect") /\ Put(fd, made + 1, e) /\ UNCHANGED <<closing, announcing, call, sweeps>>
  BY Zenon DEF Inv, Connect
<1>2. made + 1 \in Sockets /\ made + 1 \in Anything
  BY <1>1, NewSocketFacts, Zenon DEF Anything
<1>3. e \in Entries /\ e.ts = Clock + 1 /\ e.sk = made + 1 /\ ~e.inbound /\ ~e.sent /\ ~e.told
  BY <1>1, <1>2, NewEntry, Zenon DEF Put
<1> HIDE DEF e
<1>4. /\ Clock \in Nat /\ Clock' = Clock + 1
      /\ conns'[fd] = e /\ owner'[Clock + 1] = made + 1
      /\ \A i \in 1..Clock : owner'[i] = owner[i]
      /\ \A f \in Fds \ {fd} : conns'[f] = conns[f]
  BY <1>1, <1>2, <1>3, PutFacts, Zenon
<1>5. SocketsTyped'
  BY <1>1, NewSocketTyped, Zenon DEF Connect
<1>6. EntriesTyped'
  BY <1>1, <1>2, <1>3, PutTyped, Zenon
<1>7. RestTyped'
  BY <1>1, <1>4, RestKept
<1>8. EntryInv' /\ ToldInv' /\ ConnectingInv' /\ CallInv' /\ SweepInv' /\ StampInv'
  <2>1. made + 1 # Nothing
    BY <1>2, ConnTrackingAssumption DEF Sockets, Nothing
  <2>2. Own(conns'[fd], made + 1) /\ ~conns'[fd].sent /\ ~conns'[fd].inbound /\ conns'[fd].sk # Nothing
    BY <1>3, <1>4, <2>1, Zenon DEF Own
  <2>3. connecting' \subseteq connecting \cup {[s |-> made + 1, fd |-> fd, left |-> FALSE]} /\ sweep' = sweep
    BY <1>1, Zenon DEF Connect, sweeps
  <2> QED BY <1>1, <1>4, <2>2, <2>3, NewSocketKeeps, Zenon
<1> QED BY <1>5, <1>6, <1>7, <1>8, TypedPartsNext, Zenon DEF Inv

\* accept(): a new entry for a new socket, announced at once or not at all.
LEMMA AcceptStep ==
  ASSUME Inv, NEW fd \in Fds, Accept(fd)
  PROVE  Inv'
<1>1. /\ Typed /\ NewSocket(fd, "accept") /\ UNCHANGED <<connecting, closing, announcing, call, sweeps>>
      /\ Clock < MaxEntries
  BY Zenon DEF Inv, Accept, Put
<1>2. made + 1 \in Sockets /\ made + 1 \in Anything
  BY <1>1, NewSocketFacts, Zenon DEF Anything
<1>3. PICK e \in Entries : /\ Put(fd, made + 1, e) /\ e.ts = Clock + 1
                           /\ e.sk \in {Nothing, made + 1} /\ (e.told => e.sent)
  <2> DEFINE n == NewConnection(TRUE, made + 1)
             u == [n EXCEPT !.sent = TRUE, !.told = TRUE]
             m == NewConnection(TRUE, Nothing)
  <2>1. n \in Entries /\ n.ts = Clock + 1 /\ n.sk = made + 1
    BY <1>1, <1>2, NewEntry, Zenon
  <2>2. m \in Entries /\ m.ts = Clock + 1 /\ m.sk = Nothing /\ ~m.told
    BY <1>1, NewEntry, Zenon
  <2>3. Put(fd, made + 1, u) \/ Put(fd, made + 1, m)
    BY Zenon DEF Accept
  <2> HIDE DEF n, m
  <2>4. u \in Entries /\ u.ts = Clock + 1 /\ u.sk = made + 1 /\ u.sent
    BY <2>1, Marked, Zenon
  <2> HIDE DEF u
  <2> QED BY <2>2, <2>3, <2>4, Zenon
<1>4. /\ Clock \in Nat /\ Clock' = Clock + 1
      /\ conns'[fd] = e /\ owner'[Clock + 1] = made + 1
      /\ \A i \in 1..Clock : owner'[i] = owner[i]
      /\ \A f \in Fds \ {fd} : conns'[f] = conns[f]
  BY <1>1, <1>2, <1>3, PutFacts
<1>5. SocketsTyped'
  BY <1>1, NewSocketTyped, Zenon
<1>6. EntriesTyped'
  BY <1>1, <1>2, <1>3, PutTyped, Zenon
<1>7. RestTyped'
  BY <1>1, <1>4, RestKept
<1>8. EntryInv' /\ ToldInv' /\ ConnectingInv' /\ CallInv' /\ SweepInv' /\ StampInv'
  <2>1. Own(conns'[fd], made + 1)
    BY <1>3, <1>4, Zenon DEF Own
  <2>2. connecting' \subseteq connecting \cup {[s |-> made + 1, fd |-> fd, left |-> FALSE]} /\ sweep' = sweep
    BY <1>1, Zenon DEF sweeps
  <2> QED BY <1>1, <1>4, <2>1, <2>2, NewSocketKeeps, Zenon
<1> QED BY <1>5, <1>6, <1>7, <1>8, TypedPartsNext, Zenon DEF Inv

\* A socket that no program follows: of another protocol, or got in another way.
LEMMA UnfollowedStep ==
  ASSUME Inv, NEW fd \in Fds, ConnectOther(fd) \/ Receive(fd)
  PROVE  Inv'
<1>1. PICK h \in {"other", "given"} : NewSocket(fd, h)
  BY Zenon DEF ConnectOther, Receive
<1>2. Typed /\ UNCHANGED <<connecting, closing, announcing, call, sweeps>>
  BY Zenon DEF Inv, ConnectOther, Receive, maps
<1>3. made + 1 \in Sockets /\ made + 1 \in Anything
  BY <1>1, <1>2, NewSocketFacts, Zenon DEF Anything
<1>4. SocketsTyped'
  BY <1>1, <1>2, NewSocketTyped, Zenon
<1>5. sweep' = sweep
  BY <1>2, Zenon DEF sweeps
<1>6. CASE UNCHANGED <<conns, owner>>
  <2>1. Clock' = Clock /\ Clock \in Nat
    BY <1>2, <1>6, StampsGiven, Zenon DEF Clock
  <2>2. EntriesTyped'
    BY <1>2, <1>6, <2>1, TypedParts, Zenon DEF EntriesTyped, Entries, Anything
  <2>3. RestTyped'
    BY <1>2, <2>1, RestKept
  <2>4. EntryInv' /\ ToldInv' /\ ConnectingInv' /\ CallInv' /\ SweepInv' /\ StampInv'
    BY <1>1, <1>2, <1>5, <1>6, NewSocketKeeps, Zenon
  <2> QED BY <1>4, <2>2, <2>3, <2>4, TypedPartsNext, Zenon DEF Inv
<1>7. CASE Put(fd, made + 1, NewConnection(FALSE, Nothing))
  <2> DEFINE e == NewConnection(FALSE, Nothing)
  <2>1. e \in Entries /\ e.ts = Clock + 1 /\ e.sk = Nothing /\ ~e.told
    BY <1>2, <1>7, NewEntry, Zenon DEF Put
  <2>2. Put(fd, made + 1, e)
    BY <1>7, Zenon
  <2> HIDE DEF e
  <2>3. /\ Clock \in Nat /\ Clock' = Clock + 1
        /\ conns'[fd] = e /\ owner'[Clock + 1] = made + 1
        /\ \A i \in 1..Clock : owner'[i] = owner[i]
        /\ \A f \in Fds \ {fd} : conns'[f] = conns[f]
    BY <1>2, <1>3, <2>1, <2>2, PutFacts
  <2>4. EntriesTyped'
    BY <1>2, <1>3, <2>1, <2>2, PutTyped, Zenon
  <2>5. RestTyped'
    BY <1>2, <2>3, RestKept
  <2>6. Own(conns'[fd], made + 1)
    BY <2>1, <2>3, Zenon DEF Own
  <2>7. EntryInv' /\ ToldInv' /\ ConnectingInv' /\ CallInv' /\ SweepInv' /\ StampInv'
    BY <1>1, <1>2, <1>5, <2>3, <2>6, NewSocketKeeps, Zenon
  <2> QED BY <1>4, <2>4, <2>5, <2>7, TypedPartsNext DEF Inv
<1> QED BY <1>6, <1>7, Zenon DEF ConnectOther, Receive, maps

-----------------------------------------------------------------------------
(* Entries made or marked for an open descriptor. *)

\* The entry of fd after data: one of its own when there was none, or the one there was,
\* perhaps marked as announced.
Found(fd) ==
  \/ /\ conns[fd] = NoEntry
     /\ Own(conns'[fd], fdt[fd])
  \/ /\ conns[fd] # NoEntry
     /\ conns'[fd] \in Entries /\ conns'[fd].ts = conns[fd].ts
     /\ conns'[fd].sk = conns[fd].sk /\ conns'[fd].inbound = conns[fd].inbound
     /\ conns'[fd] = conns[fd] \/ (conns'[fd].sent /\ conns'[fd].told)

\* Data keeps the invariant: it changes the entry of its descriptor at most.
LEMMA FoundKeeps ==
  ASSUME Inv, NEW fd \in Fds, UNCHANGED <<descriptors, sockets, announcing, sweeps>>,
         \A f \in Fds \ {fd} : conns'[f] = conns[f],
         \A i \in 1..Clock : owner'[i] = owner[i],
         Found(fd)
  PROVE  /\ EntryInv' /\ ToldInv' /\ ConnectingInv' /\ SweepInv' /\ StampInv'
         /\ call' = call => CallInv'
<1>1. UNCHANGED <<fdt, how, closing, made, connecting, announcing, sweep>>
  BY Zenon DEF descriptors, sockets, sweeps
<1>2. /\ Clock \in Nat
      /\ \A f \in Fds : /\ conns[f] = NoEntry <=> conns[f].ts = 0
                        /\ conns[f] # NoEntry => conns[f] \in Entries /\ conns[f].ts \in 1..Clock
  BY StampsGiven, Zenon DEF Inv
<1>3. conns'[fd] # NoEntry
  <2>1. conns'[fd] \in Entries /\ conns'[fd].ts # 0
    BY <1>2 DEF Found, Own
  <2> QED BY <2>1, EntryShape, Zenon
<1>4. conns[fd] = NoEntry => ~(how[fd] = "connect" /\ fd \notin closing)
  BY Zenon DEF Inv, ToldInv
<1>5. EntryInv'
  <2> SUFFICES ASSUME NEW f \in Fds, conns'[f] # NoEntry
               PROVE  /\ Watched(f) => owner'[conns'[f].ts] = fdt[f]
                      /\ conns'[f].sk # Nothing => conns'[f].sk = owner'[conns'[f].ts]
    BY <1>1, Zenon DEF EntryInv, Watched
  <2>1. CASE conns'[f].ts = conns[f].ts /\ conns'[f].sk = conns[f].sk /\ conns[f] # NoEntry
    <3>1. owner'[conns[f].ts] = owner[conns[f].ts]
      BY <1>2, <2>1, Zenon
    <3> QED BY <2>1, <3>1, Zenon DEF Inv, EntryInv
  <2>2. CASE f = fd /\ Own(conns'[fd], fdt[fd])
    BY <2>2, Zenon DEF Own
  <2> QED BY <2>1, <2>2, Zenon DEF Found
<1>6. ToldInv'
  <2> SUFFICES ASSUME NEW f \in Fds, how[f] = "connect", f \notin closing
               PROVE  /\ conns'[f] # NoEntry
                      /\ \/ conns'[f].told
                         \/ Pending(conns'[f].ts)
                         \/ ~conns'[f].sent /\ ~conns'[f].inbound /\ conns'[f].sk # Nothing
    BY <1>1, Zenon DEF ToldInv, Pending
  <2>1. /\ conns[f] # NoEntry
        /\ \/ conns[f].told
           \/ Pending(conns[f].ts)
           \/ ~conns[f].sent /\ ~conns[f].inbound /\ conns[f].sk # Nothing
    BY Zenon DEF Inv, ToldInv
  <2>2. conns'[f] = conns[f] \/ (f = fd /\ conns'[f].told)
    BY <1>4, <2>1, Zenon DEF Found
  <2> QED BY <1>3, <2>1, <2>2, Zenon
<1>7. ConnectingInv'
  <2>1. ASSUME NEW c \in connecting, ~c.left
        PROVE  /\ fdt[c.fd] = c.s /\ c.fd \notin closing
               /\ conns'[c.fd] # NoEntry => owner'[conns'[c.fd].ts] = c.s
    <3>1. c.fd \in Fds
      BY Zenon DEF Inv, Typed, TypeOK
    <3>2. /\ fdt[c.fd] = c.s /\ c.fd \notin closing
          /\ conns[c.fd] # NoEntry => owner[conns[c.fd].ts] = c.s
      BY <2>1, Zenon DEF Inv, ConnectingInv
    <3>3. CASE conns[c.fd] # NoEntry
      <4>1. conns'[c.fd].ts = conns[c.fd].ts
        BY <3>1, <3>3, Zenon DEF Found
      <4> QED BY <1>2, <3>1, <3>2, <3>3, <4>1
    <3>4. CASE conns[c.fd] = NoEntry
      <4>1. c.fd = fd \/ conns'[c.fd] = NoEntry
        BY <3>1, <3>4, Zenon
      <4> QED BY <3>2, <3>4, <4>1, Zenon DEF Found, Own
    <3> QED BY <3>3, <3>4, Zenon
  <2>2. ASSUME NEW a \in announcing PROVE a.of = owner'[a.ts] \/ a.left
    BY <1>2, Zenon DEF Inv, Typed, ConnectingInv
  <2> QED BY <1>1, <2>1, <2>2, Zenon DEF ConnectingInv
<1>8. SweepInv'
  <2>1. ASSUME NEW f \in Fds
        PROVE  \/ conns'[f].ts = conns[f].ts /\ (Watched(f)' => Watched(f))
               \/ conns'[f].ts \in {0, Clock + 1}
    BY <1>1, Zenon DEF Own, Found, Watched
  <2> QED BY <1>1, <2>1, SweepKept, Zenon
<1>9. ASSUME call' = call PROVE CallInv'
  <2> SUFFICES ASSUME call # NoCall, call.sock # Nothing
               PROVE  /\ fdt[call.fd] = call.sock /\ call.fd \notin closing
                      /\ call.op = "write" /\ Watched(call.fd) =>
                           conns'[call.fd] # NoEntry /\ conns'[call.fd].ts = call.ts
                      /\ call.op = "write" /\ how[call.fd] = "connect" => conns'[call.fd].told \/ Pending(call.ts)
    BY <1>1, <1>9, Zenon DEF CallInv, Pending, Watched
  <2>1. call.fd \in Fds
    BY CallShape, Zenon DEF Inv
  <2>2. /\ fdt[call.fd] = call.sock /\ call.fd \notin closing
        /\ call.op = "write" /\ Watched(call.fd) => conns[call.fd] # NoEntry /\ conns[call.fd].ts = call.ts
        /\ call.op = "write" /\ how[call.fd] = "connect" => conns[call.fd].told \/ Pending(call.ts)
    BY Zenon DEF Inv, CallInv
  <2>3. conns[call.fd] # NoEntry =>
          conns'[call.fd] # NoEntry /\ conns'[call.fd].ts = conns[call.fd].ts /\ (conns[call.fd].told => conns'[call.fd].told)
    BY <1>3, <2>1, Zenon DEF Found
  <2> QED BY <2>2, <2>3, Zenon DEF Watched
<1>10. StampInv'
  <2>1. \/ conns'[fd].ts \in {0, Clock + 1}
        \/ conns'[fd].ts = conns[fd].ts /\ (conns[fd] # NoEntry /\ conns[fd].sent => conns'[fd].sent)
    BY Zenon DEF Own, Found
  <2> QED BY <1>1, <2>1, StampKept, Zenon
<1> QED BY <1>5, <1>6, <1>7, <1>8, <1>9, <1>10, Zenon

\* A second connect() makes an entry only for a socket that has none.
LEMMA ConnectAgainStep ==
  ASSUME Inv, NEW fd \in Fds, ConnectAgain(fd)
  PROVE  Inv'
<1> DEFINE e == NewConnection(FALSE, Nothing)
<1>1. /\ Typed /\ Put(fd, fdt[fd], e) /\ conns[fd] = NoEntry
      /\ UNCHANGED <<descriptors, sockets, announcing, call, sweeps>>
  BY Zenon DEF Inv, ConnectAgain
<1>2. fdt[fd] \in Anything
  BY <1>1, TypedParts, Zenon DEF SocketsTyped
<1>3. e \in Entries /\ e.ts = Clock + 1 /\ e.sk = Nothing /\ ~e.told
  BY <1>1, NewEntry, Zenon DEF Put
<1> HIDE DEF e
<1>4. /\ Clock \in Nat /\ Clock' = Clock + 1
      /\ conns'[fd] = e /\ owner'[Clock + 1] = fdt[fd]
      /\ \A i \in 1..Clock : owner'[i] = owner[i]
      /\ \A f \in Fds \ {fd} : conns'[f] = conns[f]
  BY <1>1, <1>2, <1>3, PutFacts
<1>5. SocketsTyped'
  BY <1>1, TypedParts, Zenon DEF SocketsTyped, descriptors, sockets, IsSocket
<1>6. EntriesTyped'
  BY <1>1, <1>2, <1>3, PutTyped, Zenon
<1>7. RestTyped'
  BY <1>1, <1>4, RestKept
<1>8. Found(fd)
  BY <1>1, <1>3, <1>4, Zenon DEF Found, Own
<1>9. EntryInv' /\ ToldInv' /\ ConnectingInv' /\ CallInv' /\ SweepInv' /\ StampInv'
  BY <1>1, <1>4, <1>8, FoundKeeps, Zenon
<1> QED BY <1>5, <1>6, <1>7, <1>9, TypedPartsNext DEF Inv

-----------------------------------------------------------------------------
(* Data system calls. *)

\* The opens that data on entry e can send are those of e, and of its socket if that is open;
\* one is sent for certain if the socket is followed.
LEMMA LazyFacts ==
  ASSUME Typed, NEW e \in Entries, NEW new \in BOOLEAN, NEW open \in Announced(e, new)
  PROVE  /\ \A o \in open : /\ o.what = "open" /\ o.ts = e.ts /\ e.sk # Nothing
                            /\ IsOpen(e.sk) => o.of = e.sk
         /\ \A fd \in Fds : /\ fdt[fd] = e.sk /\ how[fd] # "given"
                            /\ e.sk # Nothing /\ ~e.sent /\ ~e.inbound
                            => open # {}
<1>1. CASE e.sk # Nothing /\ ~e.sent /\ (~e.inbound \/ new)
  <2>1. open \in LazyOpens(e)
    BY <1>1, Zenon DEF Announced
  <2>2. ASSUME NEW o \in open PROVE o.what = "open" /\ o.ts = e.ts /\ (IsOpen(e.sk) => o.of = e.sk)
    <3>1. PICK s : open = {OpenEvent(e.ts, s, FALSE)} /\ (IsOpen(e.sk) => s = e.sk)
      BY <2>1, <2>2, Zenon DEF LazyOpens
    <3> QED BY <2>2, <3>1 DEF OpenEvent
  <2>3. ASSUME NEW fd \in Fds, fdt[fd] = e.sk, how[fd] # "given" PROVE open # {}
    BY <2>1, <2>3, Zenon DEF LazyOpens
  <2> QED BY <1>1, <2>2, <2>3, Zenon
<1>2. CASE ~(e.sk # Nothing /\ ~e.sent /\ (~e.inbound \/ new))
  <2>1. open = {}
    BY <1>2, Zenon DEF Announced
  <2> QED BY <1>2, <2>1, Zenon
<1> QED BY <1>1, <1>2, Zenon

\* What data sends: perhaps the open of its connection, and the records of its receivers.
Sends(fd, receivers) ==
  \E opens : /\ out' = opens \cup {Record(s, conns'[fd]) : s \in receivers}
            /\ \A o \in opens : /\ o.what = "open" /\ o.ts = conns'[fd].ts
                                /\ IsOpen(owner'[o.ts]) => o.of = owner'[o.ts]

\* Data finds the entry of its descriptor or makes one; it announces a connection that the
\* process opened, unless that has been done or is being done.
LEMMA FindFacts ==
  ASSUME Inv, NEW fd \in Fds, NEW inbound \in BOOLEAN, NEW receivers, Find(fd, inbound, receivers),
         UNCHANGED <<descriptors, sockets, announcing>>
  PROVE  /\ Found(fd)
         /\ EntriesTyped' /\ Clock' \in Nat /\ Clock <= Clock'
         /\ \A f \in Fds \ {fd} : conns'[f] = conns[f]
         /\ \A i \in 1..Clock : owner'[i] = owner[i]
         /\ how[fd] = "connect" /\ fd \notin closing => conns'[fd].told \/ Pending(conns'[fd].ts)
         /\ Sends(fd, receivers)
<1> DEFINE new == conns[fd] = NoEntry
           e   == IF new THEN Fallback(fd, inbound) ELSE conns[fd]
           entry(open) == IF open = {} THEN e ELSE [e EXCEPT !.sent = TRUE, !.told = TRUE]
<1>1. PICK open \in Announced(e, new) :
        /\ out' = open \cup {Record(s, entry(open)) : s \in receivers}
        /\ IF new THEN Put(fd, fdt[fd], entry(open))
           ELSE conns' = [conns EXCEPT ![fd] = entry(open)] /\ UNCHANGED owner
  BY Zenon DEF Find
<1>2. Typed /\ fdt[fd] \in Anything /\ UNCHANGED <<fdt, how, closing, announcing>>
  BY TypedParts, Zenon DEF Inv, SocketsTyped, descriptors
<1>3. /\ Clock \in Nat
      /\ conns[fd] # NoEntry => conns[fd] \in Entries /\ conns[fd].ts \in 1..Clock
  BY StampsGiven, Zenon DEF Inv
<1>4. CASE new
  <2>1. Clock < MaxEntries
    BY <1>1, <1>4, Zenon DEF Put
  <2>2. e \in Entries /\ e.ts = Clock + 1 /\ e.sk \in {Nothing, fdt[fd]} /\ ~e.sent /\ ~e.told
    <3>1. PICK sk : sk = IF IsSocket(fd) /\ how[fd] # "other" THEN fdt[fd] ELSE Nothing
      BY Zenon
    <3>2. sk \in {Nothing} \cup Sockets /\ sk \in {Nothing, fdt[fd]}
      BY <3>1, Zenon DEF IsSocket
    <3>3. e = NewConnection(inbound, sk)
      BY <1>4, <3>1, Zenon DEF Fallback
    <3> QED BY <1>2, <2>1, <3>2, <3>3, NewEntry
  <2>3. PICK u : u = entry(open)
    BY Zenon
  <2>4. u \in Entries /\ u.ts = e.ts /\ u.sk = e.sk /\ (u.told => u.sent)
    <3> HIDE DEF e
    <3>1. CASE open = {}
      BY <2>2, <2>3, <3>1, Zenon
    <3>2. CASE open # {}
      <4>1. u = [e EXCEPT !.sent = TRUE, !.told = TRUE]
        BY <2>3, <3>2, Zenon
      <4> QED BY <2>2, <4>1, Marked, Zenon
    <3> QED BY <3>1, <3>2, Zenon
  <2>5. Put(fd, fdt[fd], u) /\ out' = open \cup {Record(s, u) : s \in receivers}
    BY <1>1, <1>4, <2>3
  <2>6. /\ \A o \in open : /\ o.what = "open" /\ o.ts = e.ts /\ e.sk # Nothing
                           /\ IsOpen(e.sk) => o.of = e.sk
    BY <1>1, <1>2, <2>2, LazyFacts, Zenon
  <2> HIDE DEF e, new, entry
  <2>7. /\ Clock' = Clock + 1 /\ conns'[fd] = u /\ owner'[Clock + 1] = fdt[fd]
        /\ \A i \in 1..Clock : owner'[i] = owner[i]
        /\ \A f \in Fds \ {fd} : conns'[f] = conns[f]
    BY <1>2, <2>2, <2>4, <2>5, PutFacts
  <2>8. EntriesTyped'
    BY <1>2, <2>2, <2>4, <2>5, PutTyped, Zenon
  <2>9. Found(fd)
    BY <1>4, <2>2, <2>4, <2>7, Zenon DEF Found, Own, new
  <2>10. ~(how[fd] = "connect" /\ fd \notin closing)
    BY <1>4, Zenon DEF Inv, ToldInv, new
  <2>11. \A o \in open : /\ o.what = "open" /\ o.ts = conns'[fd].ts
                         /\ IsOpen(owner'[o.ts]) => o.of = owner'[o.ts]
    BY <2>2, <2>4, <2>6, <2>7, Zenon
  <2>12. Sends(fd, receivers)
    <3>1. out' = open \cup {Record(s, conns'[fd]) : s \in receivers}
      BY <2>5, <2>7, Zenon
    <3> QED BY <2>11, <3>1, Zenon DEF Sends
  <2>13. Clock' \in Nat /\ Clock <= Clock'
    BY <1>3, <2>7
  <2> QED BY <2>7, <2>8, <2>9, <2>10, <2>12, <2>13, Zenon
<1>5. CASE ~new
  <2>1. e = conns[fd] /\ e \in Entries /\ e.ts \in 1..Clock
    BY <1>3, <1>5, Zenon
  <2>2. PICK u : u = entry(open)
    OBVIOUS
  <2>3. /\ u \in Entries /\ u.ts = e.ts /\ u.sk = e.sk /\ u.inbound = e.inbound
        /\ u = e \/ (u.sent /\ u.told)
        /\ open # {} => u.told
    <3> HIDE DEF e
    <3>1. CASE open = {}
      BY <2>1, <2>2, <3>1, Zenon
    <3>2. CASE open # {}
      <4>1. u = [e EXCEPT !.sent = TRUE, !.told = TRUE]
        BY <2>2, <3>2
      <4> QED BY <2>1, <4>1, Marked, Zenon
    <3> QED BY <3>1, <3>2, Zenon
  <2>4. /\ conns' = [conns EXCEPT ![fd] = u] /\ owner' = owner
        /\ out' = open \cup {Record(s, u) : s \in receivers}
    BY <1>1, <1>5, <2>2
  <2>5. /\ \A o \in open : /\ o.what = "open" /\ o.ts = e.ts /\ e.sk # Nothing
                           /\ IsOpen(e.sk) => o.of = e.sk
        /\ /\ fdt[fd] = e.sk /\ how[fd] # "given"
           /\ e.sk # Nothing /\ ~e.sent /\ ~e.inbound
           => open # {}
    <3>1. new \in BOOLEAN /\ open \in Announced(e, new)
      BY <1>1, Zenon
    <3> HIDE DEF e, new
    <3> QED BY <1>2, <2>1, <3>1, LazyFacts
  <2>6. /\ Watched(fd) => owner[e.ts] = fdt[fd]
        /\ e.sk # Nothing => e.sk = owner[e.ts]
    BY <1>5, <2>1, Zenon DEF Inv, EntryInv
  <2>7. how[fd] = "connect" /\ fd \notin closing =>
          e.told \/ Pending(e.ts) \/ (~e.sent /\ ~e.inbound /\ e.sk # Nothing)
    BY <2>1, Zenon DEF Inv, ToldInv
  <2>8. conns[fd] # NoEntry /\ (e.told => e.sent)
    BY <1>5, <2>1, Zenon DEF Inv, Typed, TypeOK
  <2>9. e = conns[fd]
    BY <2>1, Zenon
  <2> HIDE DEF e, new, entry
  <2>10. conns' \in [Fds -> Entries \cup {NoEntry}] /\ conns'[fd] = u /\ \A f \in Fds \ {fd} : conns'[f] = conns[f]
    BY <2>3, <2>4, <1>2, TypedParts, Zenon DEF EntriesTyped
  <2>11. EntriesTyped'
    <3>1. Clock' = Clock
      BY <2>4, Zenon DEF Clock
    <3>2. EntriesTyped
      BY <1>2, TypedParts, Zenon
    <3>3. \A f \in Fds : conns'[f] # NoEntry => conns'[f].ts <= Clock /\ (conns'[f].told => conns'[f].sent)
      BY <2>1, <2>3, <2>8, <2>10, <3>2, <1>3 DEF EntriesTyped
    <3> QED BY <1>2, <2>4, <2>10, <3>1, <3>2, <3>3, Zenon DEF EntriesTyped, Entries, Anything
  <2>12. Found(fd)
    BY <2>3, <2>8, <2>9, <2>10, Zenon DEF Found
  <2>13. how[fd] = "connect" /\ fd \notin closing => conns'[fd].told \/ Pending(conns'[fd].ts)
    BY <2>3, <2>5, <2>6, <2>7, <2>10, Zenon DEF Watched
  <2>14. \A o \in open : /\ o.what = "open" /\ o.ts = conns'[fd].ts
                         /\ IsOpen(owner'[o.ts]) => o.of = owner'[o.ts]
    BY <2>3, <2>4, <2>5, <2>6, <2>10
  <2>15. Clock' = Clock /\ \A i \in 1..Clock : owner'[i] = owner[i]
    BY <2>4, Zenon DEF Clock
  <2>16. Sends(fd, receivers)
    <3>1. out' = open \cup {Record(s, conns'[fd]) : s \in receivers}
      BY <2>4, <2>10, Zenon
    <3> QED BY <2>14, <3>1 DEF Sends
  <2>17. Clock' \in Nat /\ Clock <= Clock'
    BY <1>3, <2>15
  <2> QED BY <2>10, <2>11, <2>12, <2>13, <2>15, <2>16, <2>17, Zenon
<1> QED BY <1>4, <1>5, Zenon

\* A write holds the time stamp of the entry it found.
LEMMA EnterWriteStep ==
  ASSUME Inv, NEW fd \in Fds, NEW socketOnly \in BOOLEAN, EnterWrite(fd, socketOnly)
  PROVE  Inv'
<1>1. /\ Find(fd, FALSE, {}) /\ UNCHANGED <<descriptors, sockets, announcing, sweeps>>
      /\ call' = [op |-> "write", fd |-> fd, sock |-> IF fd \in closing THEN Nothing ELSE fdt[fd], ts |-> conns'[fd].ts]
  BY Zenon DEF EnterWrite, Enter
<1>2. /\ Found(fd)
      /\ EntriesTyped' /\ Clock' \in Nat /\ Clock <= Clock'
      /\ \A f \in Fds \ {fd} : conns'[f] = conns[f]
      /\ \A i \in 1..Clock : owner'[i] = owner[i]
      /\ how[fd] = "connect" /\ fd \notin closing => conns'[fd].told \/ Pending(conns'[fd].ts)
  BY <1>1, FindFacts, Zenon
<1>3. SocketsTyped /\ SocketsTyped'
  BY <1>1, TypedParts, Zenon DEF Inv, SocketsTyped, descriptors, sockets, IsSocket
<1>4. conns'[fd] \in Entries /\ conns'[fd].ts \in 0..MaxEntries /\ conns'[fd] # NoEntry
  <2>1. conns'[fd] \in Entries
    BY <1>2, Zenon DEF Found, Own
  <2> QED BY <2>1, EntryShape, ConnTrackingAssumption DEF Entries, NoEntry, Stamps
<1>5. RestTyped'
  <2>1. call' \in Calls
    BY <1>1, <1>3, <1>4, Zenon DEF SocketsTyped, Calls, Anything
  <2> QED BY <1>1, <1>2, <2>1, RestKept, Zenon DEF Inv
<1>6. EntryInv' /\ ToldInv' /\ ConnectingInv' /\ SweepInv' /\ StampInv'
  BY <1>1, <1>2, FoundKeeps, Zenon
<1>7. CallInv'
  BY <1>1, <1>2, <1>4, Zenon DEF CallInv, descriptors, Pending, Watched
<1> QED BY <1>2, <1>3, <1>5, <1>6, <1>7, TypedPartsNext, Zenon DEF Inv

\* A read holds nothing, and finds its entry at its end.
LEMMA ExitReadStep ==
  ASSUME Inv, ExitRead
  PROVE  Inv'
<1>1. /\ Find(call.fd, TRUE, {call.sock}) /\ UNCHANGED <<descriptors, sockets, announcing, sweeps>>
      /\ call' = NoCall /\ call.fd \in Fds
  BY CallShape, Zenon DEF ExitRead, Inv
<1>2. /\ Found(call.fd)
      /\ EntriesTyped' /\ Clock' \in Nat /\ Clock <= Clock'
      /\ \A f \in Fds \ {call.fd} : conns'[f] = conns[f]
      /\ \A i \in 1..Clock : owner'[i] = owner[i]
  BY <1>1, FindFacts, Zenon
<1>3. SocketsTyped'
  BY <1>1, TypedParts, Zenon DEF Inv, SocketsTyped, descriptors, sockets, IsSocket
<1>4. RestTyped'
  BY <1>1, <1>2, RestKept, Zenon DEF Inv
<1>5. EntryInv' /\ ToldInv' /\ ConnectingInv' /\ SweepInv' /\ StampInv'
  BY <1>1, <1>2, FoundKeeps, Zenon
<1>6. CallInv'
  BY <1>1, Zenon DEF CallInv
<1> QED BY <1>2, <1>3, <1>4, <1>5, <1>6, TypedPartsNext, Zenon DEF Inv

\* A call that is entered or ends without touching the map.
LEMMA CallStep ==
  ASSUME Inv, UNCHANGED <<descriptors, sockets, maps, sweeps, owner>>,
         \/ call' = NoCall
         \/ \E fd \in Fds, socketOnly \in BOOLEAN : EnterRead(fd, socketOnly)
  PROVE  Inv'
<1>1. UNCHANGED <<fdt, how, closing, made, connecting, conns, announcing, sweep, stale, owner, Clock>>
  BY Zenon DEF descriptors, sockets, maps, sweeps, Clock
<1>2. SocketsTyped /\ EntriesTyped /\ RestTyped
  BY TypedParts, Zenon DEF Inv
<1>3. SocketsTyped' /\ EntriesTyped'
  BY <1>1, <1>2, Zenon DEF SocketsTyped, EntriesTyped, IsSocket, Entries, Anything
<1>4. \/ call' = NoCall
      \/ /\ call' \in Calls /\ call'.op = "read"
         /\ call'.sock # Nothing => fdt[call'.fd] = call'.sock /\ call'.fd \notin closing
  <2>1. ASSUME NEW fd \in Fds, NEW socketOnly \in BOOLEAN, EnterRead(fd, socketOnly)
        PROVE  /\ call' \in Calls /\ call'.op = "read"
               /\ call'.sock # Nothing => fdt[call'.fd] = call'.sock /\ call'.fd \notin closing
    <3>1. call' = [op |-> "read", fd |-> fd, sock |-> IF fd \in closing THEN Nothing ELSE fdt[fd], ts |-> 0]
      BY <2>1, Zenon DEF EnterRead, Enter
    <3>2. fdt[fd] \in Anything /\ Nothing \in Anything /\ 0 \in 0..MaxEntries
      BY <1>2, ConnTrackingAssumption DEF SocketsTyped, Anything
    <3> QED BY <3>1, <3>2, Zenon DEF Calls
  <2> QED BY <2>1, Zenon
<1>5. RestTyped'
  BY <1>1, <1>2, <1>4, Zenon DEF RestTyped, Calls
<1>6. EntryInv' /\ ToldInv'
  BY <1>1, Zenon DEF Inv, EntryInv, ToldInv, Watched, Pending
<1>7. ConnectingInv' /\ SweepInv' /\ StampInv'
  BY <1>1, Zenon DEF Inv, ConnectingInv, SweepInv, StampInv, Watched
<1>8. CallInv'
  BY <1>1, <1>4, Zenon DEF CallInv
<1> QED BY <1>3, <1>5, <1>6, <1>7, <1>8, TypedPartsNext, Zenon DEF Inv

-----------------------------------------------------------------------------
(* Deletions, and sockets that connect or are closed. *)

\* A deletion keeps the invariant, whoever deletes: a socket that loses its entry is not
\* followed any longer.
LEMMA DeleteStep ==
  ASSUME Inv, NEW fd \in Fds, Delete(fd), UNCHANGED <<fdt, closing, made, announcing, call, owner>>,
         connecting' \subseteq connecting, stale' \subseteq stale,
         \/ sweep' = sweep
         \/ sweep' = [NotLooked EXCEPT !.found = sweep.found \ {sweep.looked}]
  PROVE  Inv'
<1>1. /\ conns' \in [Fds -> Entries \cup {NoEntry}] /\ conns'[fd] = NoEntry
      /\ \A f \in Fds \ {fd} : conns'[f] = conns[f] /\ how'[f] = how[f]
      /\ how' \in [Fds -> {"none", "connect", "accept", "other", "given"}]
      /\ how'[fd] \in {how[fd], "given"}
      /\ how'[fd] = "given" => how[fd] = "given" \/ IsSocket(fd)
      /\ conns[fd] # NoEntry => ~Watched(fd)'
  BY DeleteFacts, Zenon
<1>2. SocketsTyped /\ EntriesTyped /\ RestTyped /\ Clock' = Clock /\ Clock \in Nat
  BY TypedParts, StampsGiven, Zenon DEF Inv, Clock
<1>3. NoEntry.ts = 0
  BY Zenon DEF NoEntry
<1>4. sweep' = sweep \/ (sweep'.found = sweep.found \ {sweep.looked} /\ sweep'.looked = NoEntry /\ sweep'.at = 0)
  BY Zenon DEF NotLooked
<1>5. SocketsTyped'
  <2>1. \A f \in Fds : IF fdt[f] \in Sockets THEN fdt[f] <= made ELSE how'[f] = "none"
    BY <1>1, <1>2, Zenon DEF SocketsTyped, IsSocket
  <2> QED BY <1>1, <1>2, <2>1 DEF SocketsTyped, IsSocket, Anything, Sockets
<1>6. EntriesTyped'
  <2>1. \A f \in Fds : conns'[f] # NoEntry => conns'[f] = conns[f]
    BY <1>1, Zenon
  <2> QED BY <1>1, <1>2, <2>1, Zenon DEF EntriesTyped, Entries, Anything
<1>7. RestTyped'
  <2>1. CASE sweep' = sweep
    BY <1>2, <2>1, Zenon DEF RestTyped, Calls
  <2>2. CASE sweep' = [NotLooked EXCEPT !.found = sweep.found \ {sweep.looked}]
    <3>1. sweep' = [found |-> sweep.found \ {sweep.looked}, looked |-> NoEntry, at |-> 0]
      BY <2>2, Zenon DEF NotLooked
    <3>2. sweep.found \ {sweep.looked} \in SUBSET [fd : Fds, ts : 1..Clock] /\ 0 \in 0..Clock
      BY <1>2 DEF RestTyped
    <3> QED BY <1>2, <3>1, <3>2, Zenon DEF RestTyped, Calls
  <2> QED BY <2>1, <2>2, Zenon
<1>8. EntryInv'
  BY <1>1 DEF Inv, EntryInv, Watched
<1>9. ToldInv'
  <2> SUFFICES ASSUME NEW f \in Fds, how'[f] = "connect", f \notin closing
               PROVE  /\ conns'[f] # NoEntry
                      /\ \/ conns'[f].told
                         \/ Pending(conns'[f].ts)
                         \/ ~conns'[f].sent /\ ~conns'[f].inbound /\ conns'[f].sk # Nothing
    BY Zenon DEF ToldInv, Pending
  <2>1. f # fd
    BY <1>1, Zenon DEF Inv, ToldInv, Watched
  <2> QED BY <1>1, <2>1, Zenon DEF Inv, ToldInv
<1>10. ConnectingInv'
  <2>1. \A c \in connecting : c.fd \in Fds
    BY DEF Inv, Typed, TypeOK
  <2> QED BY <1>1, <2>1 DEF Inv, ConnectingInv
<1>11. CallInv'
  <2> SUFFICES ASSUME call # NoCall, call.sock # Nothing
               PROVE  /\ fdt[call.fd] = call.sock /\ call.fd \notin closing
                      /\ call.op = "write" /\ Watched(call.fd)' =>
                           conns'[call.fd] # NoEntry /\ conns'[call.fd].ts = call.ts
                      /\ call.op = "write" /\ how'[call.fd] = "connect" => conns'[call.fd].told \/ Pending(call.ts)
    BY Zenon DEF CallInv, Pending
  <2>1. call.fd \in Fds
    BY CallShape, Zenon DEF Inv
  <2>2. /\ fdt[call.fd] = call.sock /\ call.fd \notin closing
        /\ call.op = "write" /\ Watched(call.fd) => conns[call.fd] # NoEntry /\ conns[call.fd].ts = call.ts
        /\ call.op = "write" /\ how[call.fd] = "connect" => conns[call.fd].told \/ Pending(call.ts)
    BY Zenon DEF Inv, CallInv
  <2>3. call.op = "write" /\ Watched(call.fd)' => Watched(call.fd) /\ call.fd # fd
    BY <1>1, <2>1, <2>2, Zenon DEF Watched
  <2> QED BY <1>1, <2>1, <2>2, <2>3, Zenon DEF Watched
<1>12. SweepInv'
  <2>1. \A f \in Fds : \/ conns'[f].ts = conns[f].ts /\ (Watched(f)' => Watched(f))
                       \/ conns'[f].ts \in {0, Clock + 1}
    BY <1>1, <1>3, Zenon DEF Watched
  <2> QED BY <1>4, <2>1, SweepKept, Zenon
<1>13. StampInv'
  BY <1>1, <1>3, StampKept, Zenon
<1> QED BY <1>5, <1>6, <1>7, <1>8, <1>9, <1>10, <1>11, <1>12, <1>13, TypedPartsNext, Zenon DEF Inv

\* A socket that connects marks the entry of its descriptor, which is its own unless the
\* descriptor has been closed.
LEMMA EstablishedStep ==
  ASSUME Inv, NEW c \in connecting, Established(c)
  PROVE  Inv'
<1>1. c.fd \in Fds /\ c.s \in 1..made /\ c.left \in BOOLEAN
  BY Zenon DEF Inv, Typed, TypeOK
<1>2. UNCHANGED <<fdt, how, closing, made, call, sweep, stale, owner, Clock>> /\ connecting' = connecting \ {c}
  BY Zenon DEF Established, descriptors, sweeps, Clock
<1>3. SocketsTyped /\ EntriesTyped /\ RestTyped /\ Clock \in Nat
  BY TypedParts, StampsGiven, Zenon DEF Inv
<1>4. SocketsTyped' /\ RestTyped'
  BY <1>2, <1>3, Zenon DEF SocketsTyped, RestTyped, IsSocket, Calls
<1>5. CASE UNCHANGED <<conns, announcing>>
  <2>1. EntriesTyped'
    BY <1>2, <1>3, <1>5, Zenon DEF EntriesTyped, Entries, Anything
  <2>2. EntryInv' /\ ToldInv'
    BY <1>2, <1>5, Zenon DEF Inv, EntryInv, ToldInv, Watched, Pending
  <2>3. ConnectingInv' /\ SweepInv' /\ StampInv'
    BY <1>2, <1>5, Zenon DEF Inv, ConnectingInv, SweepInv, StampInv, Watched
  <2>4. CallInv'
    BY <1>2, <1>5, Zenon DEF Inv, CallInv, Watched, Pending
  <2> QED BY <1>4, <2>1, <2>2, <2>3, <2>4, TypedPartsNext, Zenon DEF Inv
<1>6. CASE conns[c.fd] # NoEntry /\ ~conns[c.fd].sent
  <2> DEFINE a == OpenEvent(conns[c.fd].ts, c.s, c.left)
  <2>1. conns' = [conns EXCEPT ![c.fd] = [conns[c.fd] EXCEPT !.sent = TRUE]] /\ announcing' = announcing \cup {a}
    BY <1>6, Zenon DEF Established
  <2>2. conns[c.fd] \in Entries /\ conns[c.fd].ts \in 1..Clock
    BY <1>1, <1>6, StampsGiven, Zenon DEF Inv
  <2>3. PICK u : u = [conns[c.fd] EXCEPT !.sent = TRUE]
    BY Zenon
  <2>4. /\ u \in Entries /\ u.ts = conns[c.fd].ts /\ u.sk = conns[c.fd].sk /\ u.inbound = conns[c.fd].inbound
        /\ u.sent /\ u.told = conns[c.fd].told
    BY <2>2, <2>3, Marked, Zenon
  <2>5. u # NoEntry
    BY <2>2, <2>4, EntryShape
  <2>6. /\ conns' \in [Fds -> Entries \cup {NoEntry}] /\ conns'[c.fd] = u
        /\ \A f \in Fds \ {c.fd} : conns'[f] = conns[f]
    BY <1>1, <1>3, <2>1, <2>3, <2>4, Zenon DEF EntriesTyped
  <2>7. a.ts = conns[c.fd].ts /\ a.of = c.s /\ a.left = c.left
    BY Zenon DEF OpenEvent
  <2>8. a \in [what : {"open"}, ts : 1..Clock, of : Sockets, left : BOOLEAN]
    <3>1. c.s \in Sockets
      BY <1>1, <1>3, ConnTrackingAssumption DEF SocketsTyped, Sockets
    <3> QED BY <1>1, <2>2, <3>1, Zenon DEF OpenEvent
  <2> HIDE DEF a
  <2>9. EntriesTyped'
    <3>1. \A f \in Fds : conns'[f] # NoEntry => conns'[f].ts <= Clock /\ (conns'[f].told => conns'[f].sent)
      BY <1>3, <2>2, <2>4, <2>6 DEF EntriesTyped
    <3>2. announcing' \subseteq [what : {"open"}, ts : 1..Clock, of : Sockets, left : BOOLEAN]
      BY <1>3, <2>1, <2>8, Zenon DEF EntriesTyped
    <3> QED BY <1>2, <1>3, <2>6, <3>1, <3>2, Zenon DEF EntriesTyped, Entries, Anything
  <2>10. EntryInv'
    BY <1>2, <1>6, <2>4, <2>6 DEF Inv, EntryInv, Watched
  <2>11. \A ts : Pending(ts) => \E b \in announcing' : b.ts = ts
    BY <2>1, Zenon DEF Pending
  <2>12. \E b \in announcing' : b.ts = conns[c.fd].ts
    BY <2>1, <2>7, Zenon
  <2>13. ToldInv'
    <3> SUFFICES ASSUME NEW f \in Fds, how[f] = "connect", f \notin closing
                 PROVE  /\ conns'[f] # NoEntry
                        /\ \/ conns'[f].told
                           \/ \E b \in announcing' : b.ts = conns'[f].ts
                           \/ ~conns'[f].sent /\ ~conns'[f].inbound /\ conns'[f].sk # Nothing
      BY <1>2, Zenon DEF ToldInv, Pending
    <3>1. CASE f = c.fd
      <4>1. conns'[f] # NoEntry /\ conns'[f].ts = conns[c.fd].ts
        BY <2>4, <2>5, <2>6, <3>1, Zenon
      <4> QED BY <2>12, <4>1, Zenon
    <3>2. CASE f # c.fd
      BY <2>6, <2>11, <3>2, Zenon DEF Inv, ToldInv
    <3> QED BY <3>1, <3>2, Zenon
  <2>14. ConnectingInv'
    <3>1. ASSUME NEW d \in connecting, ~d.left
          PROVE  /\ fdt[d.fd] = d.s /\ d.fd \notin closing
                 /\ conns'[d.fd] # NoEntry => owner[conns'[d.fd].ts] = d.s
      <4>1. d.fd \in Fds
        BY Zenon DEF Inv, Typed, TypeOK
      <4>2. /\ fdt[d.fd] = d.s /\ d.fd \notin closing
            /\ conns[d.fd] # NoEntry => owner[conns[d.fd].ts] = d.s
        BY <3>1, Zenon DEF Inv, ConnectingInv
      <4> QED BY <1>6, <2>4, <2>6, <4>1, <4>2, Zenon
    <3>2. a.of = owner[a.ts] \/ a.left
      BY <1>6, <2>7, Zenon DEF Inv, ConnectingInv
    <3> QED BY <1>2, <2>1, <3>1, <3>2, Zenon DEF Inv, ConnectingInv
  <2>15. CallInv'
    <3> SUFFICES ASSUME call # NoCall, call.sock # Nothing
                 PROVE  /\ fdt[call.fd] = call.sock /\ call.fd \notin closing
                        /\ call.op = "write" /\ Watched(call.fd) =>
                             conns'[call.fd] # NoEntry /\ conns'[call.fd].ts = call.ts
                        /\ call.op = "write" /\ how[call.fd] = "connect" => conns'[call.fd].told \/ \E b \in announcing' : b.ts = call.ts
      BY <1>2, Zenon DEF CallInv, Pending, Watched
    <3>1. call.fd \in Fds
      BY CallShape, Zenon DEF Inv
    <3>2. conns[call.fd] # NoEntry =>
            conns'[call.fd] # NoEntry /\ conns'[call.fd].ts = conns[call.fd].ts /\ conns'[call.fd].told = conns[call.fd].told
      BY <2>4, <2>5, <2>6, <3>1, Zenon
    <3> QED BY <2>11, <3>2, Zenon DEF Inv, CallInv, Watched
  <2>16. SweepInv'
    <3>1. \A f \in Fds : conns'[f].ts = conns[f].ts /\ (Watched(f)' => Watched(f))
      BY <1>2, <2>4, <2>6, Zenon DEF Watched
    <3> QED BY <1>2, <3>1, SweepKept, Zenon
  <2>17. StampInv'
    <3>1. \A f \in Fds : conns'[f].ts = conns[f].ts
      BY <2>4, <2>6, Zenon
    <3>2. \A f \in Fds : conns'[f].ts = a.ts => f = c.fd
      BY <1>1, <2>2, <2>7, <3>1 DEF Inv, StampInv
    <3>3. ASSUME NEW b \in announcing', NEW f \in Fds, conns'[f].ts = b.ts PROVE conns'[f].sent
      <4>1. CASE b = a
        BY <2>4, <2>6, <3>2, <3>3, <4>1, Zenon
      <4>2. CASE b \in announcing
        BY <2>4, <2>6, <3>1, <3>3, <4>2 DEF Inv, StampInv
      <4> QED BY <2>1, <3>3, <4>1, <4>2, Zenon
    <3> QED BY <3>1, <3>3, Zenon DEF Inv, StampInv
  <2> QED BY <1>4, <2>9, <2>10, <2>13, <2>14, <2>15, <2>16, <2>17, TypedPartsNext, Zenon DEF Inv
<1> QED BY <1>5, <1>6, Zenon DEF Established

\* The event of a socket that connected is sent, and whatever has its time stamp is told so.
LEMMA AnnounceStep ==
  ASSUME Inv, NEW a \in announcing, Announce(a)
  PROVE  Inv'
<1>1. /\ UNCHANGED <<fdt, how, closing, made, connecting, call, sweep, stale, owner, Clock>>
      /\ announcing' = announcing \ {a}
      /\ conns' = [fd \in Fds |-> IF conns[fd].ts = a.ts THEN [conns[fd] EXCEPT !.told = TRUE] ELSE conns[fd]]
  BY Zenon DEF Announce, descriptors, sockets, sweeps, Clock
<1>2. SocketsTyped /\ EntriesTyped /\ RestTyped /\ a.ts \in 1..Clock /\ Clock \in Nat
  BY TypedParts, StampsGiven, Zenon DEF Inv, Typed
<1>3. SocketsTyped' /\ RestTyped'
  BY <1>1, <1>2, Zenon DEF SocketsTyped, RestTyped, IsSocket, Calls
<1>4. ASSUME NEW fd \in Fds
      PROVE  /\ conns'[fd] \in Entries \cup {NoEntry} /\ conns'[fd].ts = conns[fd].ts
             /\ conns[fd] # NoEntry => /\ conns'[fd].sk = conns[fd].sk /\ conns'[fd].sent = conns[fd].sent
                                       /\ conns'[fd].inbound = conns[fd].inbound
             /\ conns[fd] # NoEntry /\ conns[fd].told => conns'[fd].told
             /\ conns[fd].ts = a.ts => conns'[fd].told
             /\ conns'[fd] = NoEntry <=> conns[fd] = NoEntry
             /\ conns'[fd] # NoEntry /\ conns'[fd].told => conns[fd].told \/ conns[fd].ts = a.ts
  <2>1. /\ conns[fd] \in Entries \cup {NoEntry} /\ conns[fd] = NoEntry <=> conns[fd].ts = 0
        /\ conns[fd] # NoEntry => conns[fd] \in Entries
    BY StampsGiven, Zenon DEF Inv
  <2>2. CASE conns[fd].ts # a.ts
    BY <1>1, <2>1, <2>2, Zenon
  <2>3. CASE conns[fd].ts = a.ts
    <3>1. conns[fd] \in Entries
      BY <1>2, <2>1, <2>3
    <3>2. PICK u : u = [conns[fd] EXCEPT !.told = TRUE]
      BY Zenon
    <3>3. /\ u \in Entries /\ u.ts = conns[fd].ts /\ u.sk = conns[fd].sk /\ u.sent = conns[fd].sent
          /\ u.inbound = conns[fd].inbound /\ u.told
      <4>1. u # [conns[fd] EXCEPT !.sent = TRUE] \/ u.told
        BY <3>1, <3>2, Zenon DEF Entries
      <4> QED BY <3>1, <3>2, <4>1, Marked, Zenon
    <3>4. conns'[fd] = u
      BY <1>1, <2>3, <3>2, Zenon
    <3>5. u # NoEntry /\ conns[fd] # NoEntry
      BY <1>2, <2>3, <3>1, <3>3, EntryShape
    <3> QED BY <2>3, <3>3, <3>4, <3>5, Zenon
  <2> QED BY <2>2, <2>3, Zenon
<1>5. EntriesTyped'
  <2>1. ASSUME NEW fd \in Fds, conns'[fd] # NoEntry
        PROVE  conns'[fd].ts <= Clock /\ (conns'[fd].told => conns'[fd].sent)
    <3>1. conns[fd] # NoEntry /\ conns[fd].ts <= Clock /\ (conns[fd].told => conns[fd].sent)
      BY <1>2, <1>4, <2>1, Zenon DEF EntriesTyped
    <3>2. conns[fd].ts = a.ts => conns[fd].sent
      BY Zenon DEF Inv, StampInv
    <3> QED BY <1>4, <2>1, <3>1, <3>2, Zenon
  <2>2. conns' \in [Fds -> Entries \cup {NoEntry}]
    BY <1>1, <1>4, Zenon
  <2> QED BY <1>1, <1>2, <2>1, <2>2, Zenon DEF EntriesTyped, Entries, Anything
<1>6. EntryInv'
  BY <1>1, <1>4 DEF Inv, EntryInv, Watched
<1>7. \A fd \in Fds : conns[fd].told \/ Pending(conns[fd].ts) =>
        conns[fd] = NoEntry \/ conns'[fd].told \/ \E b \in announcing' : b.ts = conns[fd].ts
  BY <1>1, <1>4, Zenon DEF Pending
<1>8. ToldInv'
  <2> SUFFICES ASSUME NEW f \in Fds, how[f] = "connect", f \notin closing
               PROVE  /\ conns'[f] # NoEntry
                      /\ \/ conns'[f].told
                         \/ \E b \in announcing' : b.ts = conns'[f].ts
                         \/ ~conns'[f].sent /\ ~conns'[f].inbound /\ conns'[f].sk # Nothing
    BY <1>1, Zenon DEF ToldInv, Pending
  <2>1. /\ conns[f] # NoEntry
        /\ \/ conns[f].told
           \/ Pending(conns[f].ts)
           \/ ~conns[f].sent /\ ~conns[f].inbound /\ conns[f].sk # Nothing
    BY Zenon DEF Inv, ToldInv
  <2> QED BY <1>4, <1>7, <2>1
<1>9. ConnectingInv'
  <2>1. \A c \in connecting : c.fd \in Fds
    BY Zenon DEF Inv, Typed, TypeOK
  <2> QED BY <1>1, <1>4, <2>1 DEF Inv, ConnectingInv
<1>10. CallInv'
  <2> SUFFICES ASSUME call # NoCall, call.sock # Nothing
               PROVE  /\ fdt[call.fd] = call.sock /\ call.fd \notin closing
                      /\ call.op = "write" /\ Watched(call.fd) =>
                           conns'[call.fd] # NoEntry /\ conns'[call.fd].ts = call.ts
                      /\ call.op = "write" /\ how[call.fd] = "connect" =>
                           conns'[call.fd].told \/ \E b \in announcing' : b.ts = call.ts
    BY <1>1, Zenon DEF CallInv, Pending, Watched
  <2>1. call.fd \in Fds
    BY CallShape DEF Inv
  <2>2. /\ fdt[call.fd] = call.sock /\ call.fd \notin closing
        /\ call.op = "write" /\ Watched(call.fd) => conns[call.fd] # NoEntry /\ conns[call.fd].ts = call.ts
        /\ call.op = "write" /\ how[call.fd] = "connect" => conns[call.fd].told \/ Pending(call.ts)
    BY Zenon DEF Inv, CallInv
  <2> QED BY <1>4, <1>7, <2>1, <2>2 DEF Watched
<1>11. SweepInv'
  <2>1. \A f \in Fds : conns'[f].ts = conns[f].ts /\ (Watched(f)' => Watched(f))
    BY <1>1, <1>4, Zenon DEF Watched
  <2> QED BY <1>1, <2>1, SweepKept, Zenon
<1>12. StampInv'
  <2>1. ASSUME NEW b \in announcing', NEW f \in Fds, conns'[f].ts = b.ts PROVE conns'[f].sent
    <3>1. b \in announcing /\ conns[f].ts = b.ts /\ b.ts \in 1..Clock
      BY <1>1, <1>4, <2>1, Zenon DEF Inv, Typed
    <3>2. conns[f].sent /\ conns[f] # NoEntry
      BY <3>1, StampsGiven DEF Inv, StampInv
    <3> QED BY <1>4, <3>2, Zenon
  <2> QED BY <1>4, <2>1 DEF Inv, StampInv
<1> QED BY <1>3, <1>5, <1>6, <1>8, <1>9, <1>10, <1>11, <1>12, TypedPartsNext DEF Inv

\* A descriptor that is closed takes the calls on it and the sockets that connect on it along.
LEMMA LeaveFacts ==
  ASSUME Inv, NEW fd \in Fds, fdt[fd] # Nothing, Leave(fd)
  PROVE  /\ call' \in {NoCall} \cup Calls
         /\ call' # NoCall /\ call'.sock # Nothing => call' = call /\ call.fd # fd
         /\ connecting' \subseteq [s : 1..made, fd : Fds, left : BOOLEAN]
         /\ \A c \in connecting' : ~c.left => c \in connecting /\ c.fd # fd
<1>1. /\ call' = IF call # NoCall /\ call.fd = fd THEN [call EXCEPT !.sock = Nothing] ELSE call
      /\ connecting' = {IF c.s = fdt[fd] THEN [c EXCEPT !.left = TRUE] ELSE c : c \in connecting}
  BY Zenon DEF Leave
<1>2. call \in {NoCall} \cup Calls /\ connecting \subseteq [s : 1..made, fd : Fds, left : BOOLEAN]
  BY Zenon DEF Inv, Typed, TypeOK
<1>3. call \in Calls => [call EXCEPT !.sock = Nothing] \in Calls /\ [call EXCEPT !.sock = Nothing].sock = Nothing
  BY Zenon DEF Calls, Anything
<1>4. /\ call' \in {NoCall} \cup Calls
      /\ call' # NoCall /\ call'.sock # Nothing => call' = call /\ call.fd # fd
  BY <1>1, <1>2, <1>3, Zenon
<1>5. ASSUME NEW c \in connecting'
      PROVE  c \in [s : 1..made, fd : Fds, left : BOOLEAN] /\ (~c.left => c \in connecting /\ c.fd # fd)
  <2>1. PICK d \in connecting : c = IF d.s = fdt[fd] THEN [d EXCEPT !.left = TRUE] ELSE d
    BY <1>1, Zenon
  <2>2. d \in [s : 1..made, fd : Fds, left : BOOLEAN]
    BY <1>2, Zenon
  <2>3. CASE d.s = fdt[fd]
    BY <2>1, <2>2, <2>3, Zenon
  <2>4. CASE d.s # fdt[fd]
    <3>1. c = d
      BY <2>1, <2>4, Zenon
    <3>2. ~d.left => fdt[d.fd] = d.s
      BY Zenon DEF Inv, ConnectingInv
    <3> QED BY <2>2, <2>4, <3>1, <3>2, Zenon
  <2> QED BY <2>3, <2>4, Zenon
<1> QED BY <1>4, <1>5, Zenon

\* close() deletes the entry of its descriptor, and ends what is going on there.
LEMMA EnterCloseStep ==
  ASSUME Inv, NEW fd \in Fds, EnterClose(fd)
  PROVE  Inv'
<1>1. /\ fdt[fd] # Nothing /\ closing' = closing \cup {fd} /\ conns' = [conns EXCEPT ![fd] = NoEntry]
      /\ UNCHANGED <<fdt, how, made, announcing, sweep, stale, owner, Clock>> /\ Leave(fd)
  BY Zenon DEF EnterClose, sweeps, Clock
<1>2. /\ call' \in {NoCall} \cup Calls
      /\ call' # NoCall /\ call'.sock # Nothing => call' = call /\ call.fd # fd
      /\ connecting' \subseteq [s : 1..made, fd : Fds, left : BOOLEAN]
      /\ \A c \in connecting' : ~c.left => c \in connecting /\ c.fd # fd
  BY <1>1, LeaveFacts, Zenon
<1>3. SocketsTyped /\ EntriesTyped /\ RestTyped
  BY TypedParts, Zenon DEF Inv
<1>4. conns' \in [Fds -> Entries \cup {NoEntry}] /\ conns'[fd] = NoEntry /\ \A f \in Fds \ {fd} : conns'[f] = conns[f]
  BY <1>1, <1>3, Zenon DEF EntriesTyped
<1>5. SocketsTyped'
  BY <1>1, <1>2, <1>3, Zenon DEF SocketsTyped, IsSocket
<1>6. EntriesTyped'
  BY <1>1, <1>3, <1>4, Zenon DEF EntriesTyped, Entries, Anything
<1>7. RestTyped'
  BY <1>1, <1>2, <1>3, Zenon DEF RestTyped, Calls
<1>8. EntryInv' /\ ToldInv'
  BY <1>1, <1>4 DEF Inv, EntryInv, ToldInv, Watched, Pending
<1>9. ConnectingInv'
  <2>1. \A c \in connecting : c.fd \in Fds
    BY DEF Inv, Typed, TypeOK
  <2> QED BY <1>1, <1>2, <1>4, <2>1, Zenon DEF Inv, ConnectingInv
<1>10. CallInv'
  <2>1. call # NoCall => call.fd \in Fds
    BY CallShape, Zenon DEF Inv
  <2> QED BY <1>1, <1>2, <1>4, <2>1 DEF Inv, CallInv, Watched, Pending
<1>11. NoEntry.ts = 0
  BY Zenon DEF NoEntry
<1>12. SweepInv'
  <2>1. \A f \in Fds : \/ conns'[f].ts = conns[f].ts /\ (Watched(f)' => Watched(f))
                       \/ conns'[f].ts \in {0, Clock + 1}
    BY <1>1, <1>4, <1>11, Zenon DEF Watched
  <2> QED BY <1>1, <2>1, SweepKept, Zenon
<1>13. StampInv'
  BY <1>1, <1>4, <1>11, StampKept, Zenon
<1> QED BY <1>5, <1>6, <1>7, <1>8, <1>9, <1>10, <1>12, <1>13, TypedPartsNext, Zenon DEF Inv

\* A descriptor is free again, or taken by a file: no socket that is followed is touched.
LEMMA DescriptorStep ==
  ASSUME Inv, NEW fd \in Fds, ReleaseFd(fd) \/ CloseSilently(fd) \/ OpenFile(fd)
  PROVE  Inv'
<1>1. /\ UNCHANGED <<made, conns, announcing, sweep, stale, owner, Clock>>
      /\ fdt' = [fdt EXCEPT ![fd] = Nothing] \/ fdt' = [fdt EXCEPT ![fd] = File]
      /\ closing' \subseteq closing /\ closing \subseteq closing' \cup {fd}
      /\ fd \notin closing'
  <2>1. fd \notin closing \/ fdt[fd] # Nothing
    BY Zenon DEF Inv, Typed
  <2> QED BY <2>1, Zenon DEF ReleaseFd, CloseSilently, OpenFile, sockets, maps, sweeps, Clock
<1>2. SocketsTyped /\ EntriesTyped /\ RestTyped
  BY TypedParts, Zenon DEF Inv
<1>3. File \notin Sockets /\ Nothing \notin Sockets
  BY ConnTrackingAssumption DEF File, Nothing, Sockets
<1>4. /\ fdt' \in [Fds -> Anything] /\ ~IsSocket(fd)'
      /\ \A f \in Fds \ {fd} : fdt'[f] = fdt[f]
  BY <1>1, <1>2, <1>3, Zenon DEF SocketsTyped, Anything, IsSocket
<1>5. /\ how' \in [Fds -> {"none", "connect", "accept", "other", "given"}] /\ how'[fd] = "none"
      /\ \A f \in Fds \ {fd} : how'[f] = how[f]
  <2>1. CASE OpenFile(fd)
    <3>1. how' = how /\ fdt[fd] = Nothing
      BY <2>1, Zenon DEF OpenFile
    <3> QED BY <1>2, <1>3, <3>1, Zenon DEF SocketsTyped, IsSocket
  <2>2. CASE ReleaseFd(fd) \/ CloseSilently(fd)
    BY <1>2, <2>2, Zenon DEF SocketsTyped, ReleaseFd, CloseSilently
  <2> QED BY <2>1, <2>2, Zenon
<1>6. /\ call' \in {NoCall} \cup Calls
      /\ call' # NoCall /\ call'.sock # Nothing => call' = call /\ call.fd # fd
      /\ connecting' \subseteq [s : 1..made, fd : Fds, left : BOOLEAN]
      /\ \A c \in connecting' : ~c.left => c \in connecting /\ c.fd # fd
  <2>1. CASE CloseSilently(fd)
    BY <2>1, LeaveFacts, Zenon DEF CloseSilently
  <2>2. CASE ReleaseFd(fd) \/ OpenFile(fd)
    <3>1. call' = call /\ connecting' = connecting
      BY <2>2, Zenon DEF ReleaseFd, OpenFile, sockets
    <3>2. fdt[fd] = Nothing \/ fd \in closing
      BY <2>2, Zenon DEF ReleaseFd, OpenFile
    <3>3. call # NoCall /\ call.sock # Nothing => fdt[call.fd] = call.sock /\ call.fd \notin closing
      BY Zenon DEF Inv, CallInv
    <3>4. \A c \in connecting : ~c.left => fdt[c.fd] = c.s /\ c.fd \notin closing
      BY Zenon DEF Inv, ConnectingInv
    <3>5. \A c \in connecting : c.s # Nothing
      BY <1>2, ConnTrackingAssumption DEF SocketsTyped, Nothing
    <3> QED BY <1>2, <3>1, <3>2, <3>3, <3>4, <3>5 DEF RestTyped, SocketsTyped
  <2> QED BY <2>1, <2>2, Zenon
<1>7. SocketsTyped'
  <2>1. \A f \in Fds : IF fdt'[f] \in Sockets THEN fdt'[f] <= made ELSE how'[f] = "none"
    BY <1>2, <1>4, <1>5, Zenon DEF SocketsTyped, IsSocket
  <2>2. \A f, g \in Fds : fdt'[f] \in Sockets /\ fdt'[f] = fdt'[g] => f = g
    BY <1>2, <1>4, Zenon DEF SocketsTyped, IsSocket
  <2>3. \A f \in closing' : fdt'[f] # Nothing
    BY <1>1, <1>2, <1>4, Zenon DEF SocketsTyped
  <2>4. closing' \subseteq Fds
    BY <1>1, <1>2, Zenon DEF SocketsTyped
  <2> QED BY <1>1, <1>2, <1>4, <1>5, <1>6, <2>1, <2>2, <2>3, <2>4, Zenon DEF SocketsTyped, IsSocket, Anything, Sockets
<1>8. EntriesTyped'
  BY <1>1, <1>2, Zenon DEF EntriesTyped, Entries, Anything
<1>9. RestTyped'
  BY <1>1, <1>2, <1>6, Zenon DEF RestTyped, Calls
<1>10. EntryInv'
  BY <1>1, <1>4, <1>5 DEF Inv, EntryInv, Watched
<1>11. ToldInv'
  BY <1>1, <1>5, Zenon DEF Inv, ToldInv, Pending
<1>12. ConnectingInv'
  <2>1. \A c \in connecting : c.fd \in Fds
    BY DEF Inv, Typed, TypeOK
  <2> QED BY <1>1, <1>4, <1>6, <2>1, Zenon DEF Inv, ConnectingInv
<1>13. CallInv'
  <2>1. call # NoCall => call.fd \in Fds
    BY CallShape, Zenon DEF Inv
  <2> QED BY <1>1, <1>4, <1>5, <1>6, <2>1 DEF Inv, CallInv, Watched, Pending
<1>14. SweepInv'
  <2>1. \A f \in Fds : conns'[f].ts = conns[f].ts /\ (Watched(f)' => Watched(f))
    BY <1>1, <1>5, Zenon DEF Watched
  <2> QED BY <1>1, <2>1, SweepKept, Zenon
<1>15. StampInv'
  BY <1>1, Zenon DEF Inv, StampInv
<1> QED BY <1>7, <1>8, <1>9, <1>10, <1>11, <1>12, <1>13, <1>14, <1>15, TypedPartsNext, Zenon DEF Inv

\* A socket that failed to connect unnoticed is not followed any longer.
LEMMA SkippedStep ==
  ASSUME Inv, NEW c \in connecting, Skipped(c)
  PROVE  Inv'
<1>1. /\ connecting' = connecting \ {c}
      /\ UNCHANGED <<fdt, closing, made, conns, announcing, call, sweep, stale, owner, Clock>>
  BY Zenon DEF Skipped, maps, sweeps, Clock
<1>2. SocketsTyped /\ EntriesTyped /\ RestTyped
  BY TypedParts, Zenon DEF Inv
<1>3. c.s \in Sockets
  BY <1>2, ConnTrackingAssumption DEF SocketsTyped, Sockets
<1>4. /\ how' \in [Fds -> {"none", "connect", "accept", "other", "given"}]
      /\ \A f \in Fds : how'[f] = how[f] \/ (how'[f] = "given" /\ IsSocket(f))
  BY <1>2, <1>3, Zenon DEF Skipped, SocketsTyped, IsSocket
<1>5. SocketsTyped'
  BY <1>1, <1>2, <1>4, Zenon DEF SocketsTyped, IsSocket
<1>6. EntriesTyped' /\ RestTyped'
  BY <1>1, <1>2, Zenon DEF EntriesTyped, RestTyped, Entries, Anything, Calls
<1>7. EntryInv' /\ ToldInv'
  BY <1>1, <1>4, Zenon DEF Inv, EntryInv, ToldInv, Watched, Pending
<1>8. ConnectingInv' /\ StampInv'
  BY <1>1, Zenon DEF Inv, ConnectingInv, StampInv
<1>9. CallInv'
  <2>1. call # NoCall => call.fd \in Fds
    BY CallShape, Zenon DEF Inv
  <2> QED BY <1>1, <1>4, <2>1, Zenon DEF Inv, CallInv, Watched, Pending
<1>10. SweepInv'
  <2>1. \A f \in Fds : conns'[f].ts = conns[f].ts /\ (Watched(f)' => Watched(f))
    BY <1>1, <1>4, Zenon DEF Watched
  <2> QED BY <1>1, <2>1, SweepKept, Zenon
<1> QED BY <1>5, <1>6, <1>7, <1>8, <1>9, <1>10, TypedPartsNext, Zenon DEF Inv

\* The sweeps, up to their deletions: what is found stale is not followed, and the entry that
\* is looked up again is still the one that was found.
LEMMA LookStep ==
  ASSUME Inv,
         \/ \E fd \in Fds : FindStale(fd) \/ GcFind(fd)
         \/ \E x \in sweep.found : LookUp(x)
  PROVE  Inv'
<1>1. UNCHANGED <<fdt, how, closing, made, connecting, conns, announcing, call, owner, Clock>>
  BY Zenon DEF FindStale, GcFind, LookUp, descriptors, sockets, maps, Clock
<1>2. SocketsTyped /\ EntriesTyped /\ RestTyped /\ Clock \in Nat
  BY TypedParts, StampsGiven, Zenon DEF Inv
<1>3. SocketsTyped' /\ EntriesTyped'
  BY <1>1, <1>2, Zenon DEF SocketsTyped, EntriesTyped, IsSocket, Entries, Anything
<1>4. EntryInv' /\ ToldInv'
  BY <1>1, Zenon DEF Inv, EntryInv, ToldInv, Watched, Pending
<1>5. ConnectingInv' /\ CallInv' /\ StampInv'
  BY <1>1, Zenon DEF Inv, ConnectingInv, CallInv, StampInv, Watched, Pending
<1>6. ASSUME NEW fd \in Fds, FindStale(fd) PROVE RestTyped' /\ SweepInv'
  <2> DEFINE x == [fd |-> fd, ts |-> conns[fd].ts]
  <2>1. /\ sweep.looked = NoEntry /\ conns[fd] # NoEntry /\ ~IsSocket(fd) /\ stale' = stale
        /\ sweep' = [sweep EXCEPT !.found = sweep.found \cup {x}]
    BY <1>6, Zenon DEF FindStale, isSocketOpen
  <2>2. x \in [fd : Fds, ts : 1..Clock] /\ x.fd = fd
    BY <2>1, StampsGiven, Zenon DEF Inv
  <2>3. ~Watched(x.fd)
    BY <1>2, <2>1, <2>2, Zenon DEF SocketsTyped, Watched
  <2> HIDE DEF x
  <2>4. /\ sweep'.found = sweep.found \cup {x} /\ sweep'.looked = NoEntry
        /\ sweep' \in [found : SUBSET [fd : Fds, ts : 1..Clock], looked : {NoEntry} \cup [fd : Fds, ts : 1..Clock], at : 0..Clock]
    BY <1>2, <2>1, <2>2, Zenon DEF RestTyped
  <2>5. RestTyped'
    BY <1>1, <1>2, <2>1, <2>4, Zenon DEF RestTyped, Calls
  <2>6. SweepInv'
    BY <1>1, <2>3, <2>4, Zenon DEF Inv, SweepInv, Watched
  <2> QED BY <2>5, <2>6, Zenon
<1>7. ASSUME NEW x \in sweep.found, LookUp(x) PROVE RestTyped' /\ SweepInv'
  <2>1. x \in [fd : Fds, ts : 1..Clock] /\ stale' = stale /\ sweep.looked = NoEntry
    BY <1>2, <1>7, Zenon DEF RestTyped, LookUp, sweeps
  <2>2. CASE conns[x.fd].ts = x.ts
    <3>1. sweep' = [sweep EXCEPT !.looked = x, !.at = Clock]
      BY <1>7, <2>2, Zenon DEF LookUp
    <3>0. Clock \in 0..Clock
      BY <1>2
    <3>2. /\ sweep'.found = sweep.found /\ sweep'.looked = x
          /\ sweep' \in [found : SUBSET [fd : Fds, ts : 1..Clock], looked : {NoEntry} \cup [fd : Fds, ts : 1..Clock], at : 0..Clock]
      BY <1>2, <2>1, <3>0, <3>1, Zenon DEF RestTyped
    <3>3. RestTyped'
      BY <1>1, <1>2, <1>7, <2>1, <3>2, Zenon DEF RestTyped, Calls
    <3>4. SweepInv'
      BY <1>1, <2>2, <3>2, Zenon DEF Inv, SweepInv, Watched
    <3> QED BY <3>3, <3>4, Zenon
  <2>3. CASE conns[x.fd].ts # x.ts
    <3>1. sweep' = [sweep EXCEPT !.found = sweep.found \ {x}]
      BY <1>7, <2>3, Zenon DEF LookUp
    <3>2. /\ sweep'.found = sweep.found \ {x} /\ sweep'.looked = NoEntry
          /\ sweep' \in [found : SUBSET [fd : Fds, ts : 1..Clock], looked : {NoEntry} \cup [fd : Fds, ts : 1..Clock], at : 0..Clock]
      BY <1>2, <2>1, <3>1, Zenon DEF RestTyped
    <3>3. RestTyped'
      BY <1>1, <1>2, <2>1, <3>2, Zenon DEF RestTyped, Calls
    <3>4. SweepInv'
      BY <1>1, <3>2, Zenon DEF Inv, SweepInv, Watched
    <3> QED BY <3>3, <3>4
  <2> QED BY <2>2, <2>3, Zenon
<1>8. ASSUME NEW fd \in Fds, GcFind(fd) PROVE RestTyped' /\ SweepInv'
  <2>1. sweep' = sweep /\ stale' = stale \cup {fd}
    BY <1>8, Zenon DEF GcFind
  <2> QED BY <1>1, <1>2, <2>1, Zenon DEF RestTyped, Calls, Inv, SweepInv, Watched
<1> QED BY <1>3, <1>4, <1>5, <1>6, <1>7, <1>8, TypedPartsNext, Zenon DEF Inv

-----------------------------------------------------------------------------
(* The events. *)

\* The socket of an event is on one descriptor at most.
LEMMA OneDescriptor ==
  ASSUME Inv, NEW fd \in Fds, NEW ways \in SUBSET {"connect", "accept"}, Followed(fdt[fd], ways)
  PROVE  how[fd] \in ways /\ Watched(fd)
<1>1. PICK f \in Fds : fdt[f] = fdt[fd] /\ how[f] \in ways
  BY Zenon DEF Followed
<1>2. IsSocket(f)
  BY <1>1, Zenon DEF Inv, Typed
<1>3. f = fd
  BY <1>1, <1>2, Zenon DEF Inv, Typed
<1> QED BY <1>1, <1>3, Zenon DEF Watched

\* No event is about no socket.
LEMMA NothingFollowed ==
  ASSUME Inv, NEW ways \in SUBSET {"connect", "accept"}
  PROVE  ~Followed(Nothing, ways)
<1>1. Nothing \notin Sockets
  BY ConnTrackingAssumption DEF Nothing, Sockets
<1> QED BY <1>1, Zenon DEF Inv, Typed, IsSocket, Followed

\* Data that is recorded where its entry is found.
LEMMA ExitReadSays ==
  ASSUME Inv, ExitRead
  PROVE  /\ \A e \in out' \ Opens(out') : Followed(e.sock, {"connect", "accept"}) => owner'[e.ts] = e.sock
         /\ \A o \in Opens(out') : IsOpen(owner'[o.ts]) => o.of = owner'[o.ts]
         /\ \A e \in out' : e.what = "data" /\ Followed(e.sock, {"connect"}) => e.told \/ Pending(e.ts)
<1>1. /\ Find(call.fd, TRUE, {call.sock}) /\ UNCHANGED <<descriptors, sockets, announcing, sweeps>>
      /\ call.fd \in Fds /\ call # NoCall
  BY CallShape, Zenon DEF ExitRead, Inv
<1>2. /\ Found(call.fd)
      /\ how[call.fd] = "connect" /\ call.fd \notin closing => conns'[call.fd].told \/ Pending(conns'[call.fd].ts)
      /\ Sends(call.fd, {call.sock})
  BY <1>1, FindFacts, Zenon
<1> DEFINE fd == call.fd
<1>3. EntryInv' /\ UNCHANGED <<fdt, how>>
  BY <1>1, ExitReadStep, Zenon DEF Inv, descriptors
<1>4. /\ Found(fd) /\ fd \in Fds
      /\ how[fd] = "connect" /\ fd \notin closing => conns'[fd].told \/ Pending(conns'[fd].ts)
      /\ call # NoCall
  BY <1>1, <1>2, Zenon
<1>5. PICK open : /\ out' = open \cup {Record(call.sock, conns'[fd])}
                  /\ \A o \in open : o.what = "open" /\ (IsOpen(owner'[o.ts]) => o.of = owner'[o.ts])
  <2>1. {Record(s, conns'[fd]) : s \in {call.sock}} = {Record(call.sock, conns'[fd])}
    BY Zenon
  <2> QED BY <1>2, <2>1, Zenon DEF Sends
<1> HIDE DEF fd
<1>6. PICK r : r = Record(call.sock, conns'[fd])
  BY Zenon
<1>7. r.what = "data" /\ r.sock = call.sock /\ r.ts = conns'[fd].ts /\ r.told = conns'[fd].told
  BY <1>6, Zenon DEF Record
<1>8. conns'[fd] # NoEntry
  <2>1. conns'[fd] \in Entries
    BY <1>4 DEF Found, Own
  <2> QED BY <2>1, EntryShape, ConnTrackingAssumption DEF Entries, NoEntry, Stamps
<1>9. ASSUME NEW ways \in SUBSET {"connect", "accept"}, Followed(call.sock, ways)
      PROVE  how[fd] \in ways /\ Watched(fd) /\ call.sock = fdt[fd] /\ fd \notin closing
  <2>1. call.sock # Nothing
    BY <1>9, NothingFollowed, Zenon
  <2>2. call.sock = fdt[fd] /\ fd \notin closing
    BY <1>4, <2>1 DEF Inv, CallInv, fd
  <2> QED BY <1>4, <1>9, <2>2, OneDescriptor
<1>10. Followed(r.sock, {"connect", "accept"}) => owner'[r.ts] = r.sock
  BY <1>3, <1>4, <1>7, <1>8, <1>9 DEF EntryInv, Watched
<1>11. Followed(r.sock, {"connect"}) => r.told \/ Pending(r.ts)
  BY <1>4, <1>7, <1>9
<1>12. \A e \in out' : e = r \/ (e \in open /\ e.what = "open")
  BY <1>5, <1>6, Zenon
<1> QED BY <1>5, <1>7, <1>10, <1>11, <1>12, Zenon DEF Opens

\* A step without events says nothing wrong.
LEMMA QuietSays ==
  ASSUME Inv', Quiet
  PROVE  StampIsOwn' /\ OpenIsTrue'
BY Zenon DEF Quiet, StampIsOwn, OpenIsTrue, Opens, Inv, Typed

\* A step that sends one open.
LEMMA OpenSays ==
  ASSUME Inv', NEW o, out' = {o}, o.what = "open", o.of = owner'[o.ts] \/ o.left
  PROVE  StampIsOwn' /\ OpenIsTrue'
BY Zenon DEF StampIsOwn, OpenIsTrue, Opens, Inv, Typed

\* The open of an accepted connection is that of its own socket.
LEMMA AcceptSays ==
  ASSUME Inv, Inv', NEW fd \in Fds, Accept(fd)
  PROVE  StampIsOwn' /\ OpenIsTrue'
<1>1. CASE Quiet
  BY <1>1, QuietSays, Zenon
<1>2. CASE out' = {OpenEvent(Clock + 1, made + 1, FALSE)}
  <2>1. owner' = Append(owner, made + 1) /\ made + 1 \in Anything
    <3>1. owner' = Append(owner, made + 1) /\ made < MaxSockets
      BY Zenon DEF Accept, Put, NewSocket
    <3> QED BY <3>1, ConnTrackingAssumption DEF Inv, Typed, Anything, Sockets
  <2>2. owner'[Clock + 1] = made + 1
    BY <2>1, OwnerGrows, Zenon DEF Inv
  <2>3. PICK o : o = OpenEvent(Clock + 1, made + 1, FALSE)
    BY Zenon
  <2>4. o.what = "open" /\ o.ts = Clock + 1 /\ o.of = made + 1
    BY <2>3, Zenon DEF OpenEvent
  <2> QED BY <1>2, <2>2, <2>3, <2>4, OpenSays, Zenon
<1> QED BY <1>1, <1>2, Zenon DEF Accept

\* The open that inet_sock_set_state sends is that of the entry it marked.
LEMMA AnnounceSays ==
  ASSUME Inv, Inv', NEW a \in announcing, Announce(a)
  PROVE  StampIsOwn' /\ OpenIsTrue'
<1>1. out' = {a} /\ owner' = owner
  BY Zenon DEF Announce
<1>2. a.what = "open" /\ (a.of = owner[a.ts] \/ a.left)
  BY Zenon DEF Inv, Typed, ConnectingInv
<1> QED BY <1>1, <1>2, OpenSays, Zenon

\* The close of a connection that is followed has its own time stamp.
LEMMA CloseSays ==
  ASSUME Inv, Inv', NEW fd \in Fds, EnterClose(fd)
  PROVE  StampIsOwn' /\ OpenIsTrue'
<1>1. CASE conns[fd] = NoEntry
  BY <1>1, QuietSays, Zenon DEF EnterClose, Quiet
<1>2. CASE conns[fd] # NoEntry
  <2>1. PICK r : r = [what |-> "close", ts |-> conns[fd].ts, sock |-> fdt[fd], told |-> conns[fd].told]
    BY Zenon
  <2>2. r.what = "close" /\ r.ts = conns[fd].ts /\ r.sock = fdt[fd]
    BY <2>1, Zenon
  <2>3. out' = {r} /\ UNCHANGED <<fdt, how, owner>>
    BY <1>2, <2>1, Zenon DEF EnterClose
  <2>4. Followed(r.sock, {"connect", "accept"}) => owner[r.ts] = r.sock
    <3>1. {"connect", "accept"} \in SUBSET {"connect", "accept"}
      BY Zenon
    <3> QED BY <1>2, <2>2, <3>1, OneDescriptor, Zenon DEF Inv, EntryInv
  <2>5. StampIsOwn'
    BY <2>3, <2>4 DEF StampIsOwn, Inv, Typed, Followed
  <2>6. OpenIsTrue'
    BY <2>2, <2>3, Zenon DEF OpenIsTrue, Opens
  <2> QED BY <2>5, <2>6, Zenon
<1> QED BY <1>1, <1>2, Zenon

\* A step with events that are right in the state it ends in, for descriptors that it leaves
\* alone.
LEMMA DataSays ==
  ASSUME Inv', UNCHANGED <<fdt, how, announcing>>,
         \A e \in out' \ Opens(out') : Followed(e.sock, {"connect", "accept"}) => owner'[e.ts] = e.sock,
         \A o \in Opens(out') : IsOpen(owner'[o.ts]) => o.of = owner'[o.ts],
         \A e \in out' : e.what = "data" /\ Followed(e.sock, {"connect"}) => e.told \/ Pending(e.ts)
  PROVE  StampIsOwn' /\ OpenIsTrue'
<1>1. \A s, ways : Followed(s, ways)' <=> Followed(s, ways)
  BY Zenon DEF Followed
<1>2. \A s : IsOpen(s)' <=> IsOpen(s)
  BY Zenon DEF IsOpen
<1>3. Opens(out)' = Opens(out')
  BY Zenon DEF Opens
<1>4. StampIsOwn'
  BY <1>3, Zenon DEF StampIsOwn, Inv, Typed, Followed
<1>5. OpenIsTrue'
  BY <1>3, Zenon DEF OpenIsTrue, Followed, IsOpen, Pending
<1> QED BY <1>4, <1>5, Zenon

\* The record of a write has the time stamp of the entry that the write found.
LEMMA WriteSays ==
  ASSUME Inv, Inv', SendRecord
  PROVE  StampIsOwn' /\ OpenIsTrue'
<1>1. /\ call # NoCall /\ call.op = "write" /\ UNCHANGED <<fdt, how, announcing, owner>>
      /\ call.fd \in Fds
  BY CallShape, Zenon DEF SendRecord, descriptors, maps, Inv
<1>2. PICK e : out' = {Record(call.sock, e)} /\ (conns[call.fd].ts = call.ts => e = conns[call.fd])
  BY Zenon DEF SendRecord
<1>3. PICK r : r = Record(call.sock, e)
  BY Zenon
<1>4. r.what = "data" /\ r.sock = call.sock /\ r.ts = e.ts /\ r.told = e.told
  BY <1>3, Zenon DEF Record
<1>5. ASSUME NEW ways \in SUBSET {"connect", "accept"}, Followed(call.sock, ways)
      PROVE  /\ how[call.fd] \in ways /\ e = conns[call.fd]
             /\ owner[e.ts] = call.sock
             /\ how[call.fd] = "connect" => e.told \/ Pending(e.ts)
  <2>1. call.sock # Nothing
    BY <1>5, NothingFollowed, Zenon
  <2>2. fdt[call.fd] = call.sock
    BY <1>1, <2>1, Zenon DEF Inv, CallInv
  <2>3. how[call.fd] \in ways /\ Watched(call.fd)
    BY <1>1, <1>5, <2>2, OneDescriptor, Zenon
  <2>4. /\ conns[call.fd] # NoEntry /\ conns[call.fd].ts = call.ts
        /\ how[call.fd] = "connect" => conns[call.fd].told \/ Pending(call.ts)
    BY <1>1, <2>1, <2>3, Zenon DEF Inv, CallInv
  <2>5. owner[conns[call.fd].ts] = fdt[call.fd]
    BY <1>1, <2>3, <2>4, Zenon DEF Inv, EntryInv
  <2> QED BY <1>2, <2>2, <2>3, <2>4, <2>5, Zenon
<1>6. Followed(r.sock, {"connect", "accept"}) => owner'[r.ts] = r.sock
  BY <1>1, <1>4, <1>5, Zenon
<1>7. Followed(r.sock, {"connect"}) => r.told \/ Pending(r.ts)
  BY <1>4, <1>5
<1>8. out' = {r} /\ Opens(out') = {}
  BY <1>2, <1>3, <1>4, Zenon DEF Opens
<1> QED BY <1>1, <1>6, <1>7, <1>8, DataSays, Zenon

\* A write announces its connection at its entry.
LEMMA EnterWriteSays ==
  ASSUME Inv, Inv', NEW fd \in Fds, NEW socketOnly \in BOOLEAN, EnterWrite(fd, socketOnly)
  PROVE  StampIsOwn' /\ OpenIsTrue'
<1>1. /\ Find(fd, FALSE, {}) /\ UNCHANGED <<descriptors, sockets, announcing, sweeps>>
  BY Zenon DEF EnterWrite
<1>2. Sends(fd, {})
  BY <1>1, FindFacts, Zenon
<1>3. \A o \in out' : o.what = "open" /\ (IsOpen(owner'[o.ts]) => o.of = owner'[o.ts])
  BY <1>2, Zenon DEF Sends
<1>4. UNCHANGED <<fdt, how, announcing>>
  BY <1>1, Zenon DEF descriptors
<1>5. Opens(out') = out'
  BY <1>3, Zenon DEF Opens
<1> QED BY <1>3, <1>4, <1>5, DataSays, Zenon

\* The record of a read, and the open that may come before it.
LEMMA ReadSays ==
  ASSUME Inv, Inv', ExitRead
  PROVE  StampIsOwn' /\ OpenIsTrue'
<1>1. UNCHANGED <<fdt, how, announcing>>
  BY Zenon DEF ExitRead, descriptors
<1> QED BY <1>1, ExitReadSays, DataSays, Zenon

-----------------------------------------------------------------------------
(* The invariant and the theorems. *)

\* The agent starts with at most one entry, of a socket that is not followed.
LEMMA InitInv ==
  ASSUME Init
  PROVE  Inv /\ StampIsOwn /\ OpenIsTrue
<1>1. PICK fd \in Fds, what \in {Nothing, File, 1}, was \in {Nothing, 1}, has, inbound \in BOOLEAN :
        /\ fdt = [f \in Fds |-> IF f = fd THEN what ELSE Nothing]
        /\ how = [f \in Fds |-> IF f = fd /\ what = 1 THEN "given" ELSE "none"]
        /\ made = IF what = 1 THEN 1 ELSE 0
        /\ conns = [f \in Fds |->
             IF f = fd /\ has
             THEN [ts |-> 1, inbound |-> inbound, sent |-> FALSE, told |-> FALSE, sk |-> Nothing]
             ELSE NoEntry]
        /\ owner = IF has THEN <<was>> ELSE << >>
        /\ was = 1 => has /\ what = 1
  BY Zenon DEF Init
<1>2. /\ connecting = {} /\ closing = {} /\ announcing = {} /\ call = NoCall
      /\ sweep = NotLooked /\ stale = {} /\ out = {}
  BY Zenon DEF Init
<1> DEFINE first == [ts |-> 1, inbound |-> inbound, sent |-> FALSE, told |-> FALSE, sk |-> Nothing]
<1>3. 1 \in Sockets /\ 1 \in Stamps /\ Nothing \notin Sockets /\ File \notin Sockets
  BY ConnTrackingAssumption DEF Sockets, Stamps, Nothing, File
<1>4. first \in Entries /\ first.ts = 1 /\ ~first.told /\ first.sk = Nothing
  BY <1>3, Zenon DEF Entries
<1>5. NoEntry.ts = 0
  BY Zenon DEF NoEntry
<1>6. conns \in [Fds -> {NoEntry, first}] /\ \A f \in Fds : conns[f] = first => f = fd /\ has
  BY <1>1, <1>4, <1>5
<1>7. owner \in Seq(Anything) /\ Clock = IF has THEN 1 ELSE 0
  <2>1. was \in Anything
    BY <1>3, Zenon DEF Anything
  <2>2. CASE has
    BY <1>1, <2>1, <2>2 DEF Clock
  <2>3. CASE ~has
    BY <1>1, <2>3 DEF Clock
  <2> QED BY <2>2, <2>3, Zenon
<1> HIDE DEF first
<1>8. SocketsTyped
  <2>1. fdt \in [Fds -> Anything] /\ how \in [Fds -> {"none", "connect", "accept", "other", "given"}]
    BY <1>1, <1>3, Zenon DEF Anything
  <2>2. made \in 0..MaxSockets
    BY <1>1, ConnTrackingAssumption
  <2>3. \A f \in Fds : IF IsSocket(f) THEN fdt[f] <= made /\ how[f] # "none" ELSE how[f] = "none"
    BY <1>1, <1>3 DEF IsSocket
  <2>4. \A f, g \in Fds : IsSocket(f) /\ fdt[f] = fdt[g] => f = g
    BY <1>1, <1>3, Zenon DEF IsSocket
  <2> QED BY <1>2, <2>1, <2>2, <2>3, <2>4, Zenon DEF SocketsTyped
<1>9. EntriesTyped
  <2>1. conns \in [Fds -> Entries \cup {NoEntry}]
    BY <1>4, <1>6, Zenon
  <2>2. Clock <= MaxEntries
    BY <1>7, ConnTrackingAssumption
  <2>3. \A f \in Fds : conns[f] # NoEntry => conns[f].ts <= Clock /\ (conns[f].told => conns[f].sent)
    BY <1>4, <1>6, <1>7
  <2> QED BY <1>2, <1>7, <2>1, <2>2, <2>3, Zenon DEF EntriesTyped
<1>10. RestTyped
  <2>1. sweep.found = {} /\ sweep.looked = NoEntry
    BY <1>2, Zenon DEF NotLooked
  <2>2. 0 \in 0..Clock
    BY <1>7
  <2>3. sweep \in [found : SUBSET [fd : Fds, ts : 1..Clock], looked : {NoEntry} \cup [fd : Fds, ts : 1..Clock], at : 0..Clock]
    BY <1>2, <2>2, Zenon DEF NotLooked
  <2> QED BY <1>2, <2>1, <2>3, Zenon DEF RestTyped
<1>11. \A f \in Fds : ~Watched(f)
  BY <1>1, Zenon DEF Watched
<1>12. EntryInv /\ ToldInv
  <2>1. \A f \in Fds : conns[f] # NoEntry => conns[f].sk = Nothing
    BY <1>4, <1>6, Zenon
  <2> QED BY <1>11, <2>1, Zenon DEF EntryInv, ToldInv, Watched
<1>13. ConnectingInv /\ CallInv
  BY <1>2, Zenon DEF ConnectingInv, CallInv
<1>14. SweepInv
  BY <1>2, Zenon DEF SweepInv, NotLooked
<1>15. StampInv
  BY <1>2, <1>6 DEF StampInv, NoEntry
<1>16. Typed
  BY <1>8, <1>9, <1>10, TypedParts, Zenon
<1>17. StampIsOwn /\ OpenIsTrue
  BY <1>2, <1>16, Zenon DEF StampIsOwn, OpenIsTrue, Opens, Typed
<1> QED BY <1>12, <1>13, <1>14, <1>15, <1>16, <1>17, Zenon DEF Inv

\* Everything that deletes an entry.
LEMMA DeletesStep ==
  ASSUME Inv, \/ \E fd \in Fds : Evict(fd) \/ GcDelete(fd)
              \/ \E c \in connecting : Refused(c)
              \/ DeleteStale
  PROVE  Inv'
<1>1. ASSUME NEW fd \in Fds, Evict(fd) PROVE Inv'
  BY <1>1, DeleteStep, Zenon DEF Evict, sockets, sweeps
<1>2. ASSUME NEW fd \in Fds, GcDelete(fd) PROVE Inv'
  <2>1. stale' \subseteq stale
    BY <1>2, Zenon DEF GcDelete
  <2> QED BY <1>2, <2>1, DeleteStep, Zenon DEF GcDelete, sockets
<1>3. ASSUME NEW c \in connecting, Refused(c) PROVE Inv'
  <2>1. c.fd \in Fds
    BY TypedParts, Zenon DEF Inv, SocketsTyped
  <2>2. connecting' \subseteq connecting
    BY <1>3, Zenon DEF Refused
  <2> QED BY <1>3, <2>1, <2>2, DeleteStep, Zenon DEF Refused, sweeps
<1>4. ASSUME DeleteStale PROVE Inv'
  <2>1. sweep.looked.fd \in Fds
    <3>1. RestTyped /\ sweep.looked # NoEntry
      BY <1>4, TypedParts, Zenon DEF DeleteStale, Inv
    <3> QED BY <3>1, Zenon DEF RestTyped
  <2> QED BY <1>4, <2>1, DeleteStep, Zenon DEF DeleteStale, sockets
<1> QED BY <1>1, <1>2, <1>3, <1>4, Zenon

\* Every step preserves the invariant, and the events that it sends are right.
LEMMA NextInv ==
  ASSUME Inv, Next
  PROVE  Inv' /\ StampIsOwn' /\ OpenIsTrue'
<1> USE QuietSays
<1>1. ASSUME NEW fd \in Fds, Connect(fd) PROVE Inv' /\ Quiet
  BY <1>1, ConnectStep, Zenon DEF Connect
<1>2. ASSUME NEW fd \in Fds, ConnectOther(fd) \/ Receive(fd) PROVE Inv' /\ Quiet
  BY <1>2, UnfollowedStep, Zenon DEF ConnectOther, Receive
<1>3. ASSUME NEW fd \in Fds, ConnectAgain(fd) PROVE Inv' /\ Quiet
  BY <1>3, ConnectAgainStep, Zenon DEF ConnectAgain
<1>4. ASSUME NEW fd \in Fds, Accept(fd) PROVE Inv' /\ StampIsOwn' /\ OpenIsTrue'
  BY <1>4, AcceptStep, AcceptSays, Zenon
<1>5. ASSUME NEW fd \in Fds, OpenFile(fd) \/ ReleaseFd(fd) \/ CloseSilently(fd) PROVE Inv' /\ Quiet
  BY <1>5, DescriptorStep, Zenon DEF OpenFile, ReleaseFd, CloseSilently
<1>6. ASSUME NEW fd \in Fds, EnterClose(fd) PROVE Inv' /\ StampIsOwn' /\ OpenIsTrue'
  BY <1>6, EnterCloseStep, CloseSays
<1>7. ASSUME NEW fd \in Fds, Evict(fd) \/ GcDelete(fd) PROVE Inv' /\ Quiet
  BY <1>7, DeletesStep, Zenon DEF Evict, GcDelete
<1>8. ASSUME NEW fd \in Fds, GcFind(fd) \/ FindStale(fd) PROVE Inv' /\ Quiet
  BY <1>8, LookStep, Zenon DEF GcFind, FindStale
<1>9. ASSUME NEW c \in connecting, Established(c) PROVE Inv' /\ Quiet
  BY <1>9, EstablishedStep, Zenon DEF Established
<1>10. ASSUME NEW c \in connecting, Refused(c) PROVE Inv' /\ Quiet
  BY <1>10, DeletesStep, Zenon DEF Refused
<1>11. ASSUME NEW c \in connecting, Skipped(c) PROVE Inv' /\ Quiet
  BY <1>11, SkippedStep, Zenon DEF Skipped
<1>12. ASSUME NEW a \in announcing, Announce(a) PROVE Inv' /\ StampIsOwn' /\ OpenIsTrue'
  BY <1>12, AnnounceStep, AnnounceSays, Zenon
<1>13. ASSUME NEW fd \in Fds, NEW socketOnly \in BOOLEAN, EnterWrite(fd, socketOnly)
       PROVE  Inv' /\ StampIsOwn' /\ OpenIsTrue'
  BY <1>13, EnterWriteStep, EnterWriteSays, Zenon
<1>14. ASSUME NEW fd \in Fds, NEW socketOnly \in BOOLEAN, EnterRead(fd, socketOnly) PROVE Inv' /\ Quiet
  BY <1>14, CallStep, Zenon DEF EnterRead
<1>15. ASSUME SendRecord PROVE Inv' /\ StampIsOwn' /\ OpenIsTrue'
  <2>1. Inv'
    BY <1>15, CallStep, Zenon DEF SendRecord
  <2> QED BY <1>15, <2>1, WriteSays, Zenon
<1>16. ASSUME ExitRead PROVE Inv' /\ StampIsOwn' /\ OpenIsTrue'
  BY <1>16, ExitReadStep, ReadSays, Zenon
<1>17. ASSUME EndCall PROVE Inv' /\ Quiet
  BY <1>17, CallStep, Zenon DEF EndCall
<1>18. ASSUME NEW x \in sweep.found, LookUp(x) PROVE Inv' /\ Quiet
  BY <1>18, LookStep, Zenon DEF LookUp
<1>19. ASSUME DeleteStale PROVE Inv' /\ Quiet
  BY <1>19, DeletesStep, Zenon DEF DeleteStale
<1> QED
  BY <1>1, <1>2, <1>3, <1>4, <1>5, <1>6, <1>7, <1>8, <1>9, <1>10, <1>11, <1>12, <1>13, <1>14, <1>15, <1>16, <1>17, <1>18, <1>19 DEF Next, Sweep

\* A step that changes nothing.
LEMMA StutterInv ==
  ASSUME Inv, StampIsOwn, OpenIsTrue, UNCHANGED vars
  PROVE  Inv' /\ StampIsOwn' /\ OpenIsTrue'
<1>1. /\ UNCHANGED <<fdt, how, closing, made, connecting, conns, announcing, call, sweep, stale, owner, out, Clock>>
  BY Zenon DEF vars, descriptors, sockets, maps, sweeps, Clock
<1>2. SocketsTyped' /\ EntriesTyped' /\ RestTyped'
  BY <1>1, TypedParts, Zenon DEF Inv, SocketsTyped, EntriesTyped, RestTyped, IsSocket, Entries, Anything, Calls
<1>3. EntryInv' /\ ToldInv' /\ ConnectingInv' /\ CallInv'
  BY <1>1, Zenon DEF Inv, EntryInv, ToldInv, ConnectingInv, CallInv, Watched, Pending
<1>4. SweepInv' /\ StampInv'
  BY <1>1, Zenon DEF Inv, SweepInv, StampInv, Watched
<1>5. Inv'
  BY <1>2, <1>3, <1>4, TypedPartsNext, Zenon DEF Inv
<1>6. StampIsOwn'
  BY <1>1, <1>5, Zenon DEF StampIsOwn, Opens, Followed, Inv, Typed
<1>7. OpenIsTrue'
  BY <1>1, Zenon DEF OpenIsTrue, Opens, Followed, IsOpen
<1> QED BY <1>5, <1>6, <1>7, Zenon

\* The inductive invariant, with the two invariants about the events of the last step.
LEMMA Invariance ==
  Spec => [](Inv /\ StampIsOwn /\ OpenIsTrue)
<1>1. Init => Inv /\ StampIsOwn /\ OpenIsTrue
  BY InitInv, Zenon
<1>2. Inv /\ StampIsOwn /\ OpenIsTrue /\ [Next]_vars => (Inv /\ StampIsOwn /\ OpenIsTrue)'
  BY NextInv, StutterInv, Zenon
<1> QED BY <1>1, <1>2, PTL DEF Spec

\* Every L7 record and every close event has the time stamp of an entry that was made for the
\* socket it is about, as long as that socket is followed: whatever was left behind under the
\* same descriptor (the BPF_ANY of connect and accept, trace_enter_write, the end of reads).
THEOREM StampsAreOwn ==
  Spec => []StampIsOwn
BY Invariance, PTL

\* Open events have the addresses of the right socket, and no L7 record of a connection that
\* the process opened comes before its open is sent or on its way
\* (inet_sock_set_state, emit_connection_open_lazy).
THEOREM OpensAreTrue ==
  Spec => []OpenIsTrue
BY Invariance, PTL

\* The deletion of the sweep, when it takes the entry of an open connection away.
LEMMA DeleteSpares ==
  ASSUME Inv, DeleteStale, how' # how
  PROVE  conns[sweep.looked.fd].ts > sweep.at
<1> DEFINE fd == sweep.looked.fd
<1>1. /\ sweep.looked # NoEntry /\ Delete(fd) /\ fd \in Fds
      /\ sweep.looked \in sweep.found
  BY Zenon DEF DeleteStale, Inv, Typed
<1> HIDE DEF fd
<1>2. conns[fd] # NoEntry /\ IsSocket(fd) /\ owner[conns[fd].ts] = fdt[fd] /\ how[fd] # "other" /\ how[fd] # "given"
  <2>1. how \in [Fds -> {"none", "connect", "accept", "other", "given"}]
    BY TypedParts, Zenon DEF Inv, SocketsTyped
  <2> QED BY <1>1, <2>1, Zenon DEF Delete
<1>3. Watched(fd)
  BY <1>1, <1>2, TypedParts, Zenon DEF Inv, SocketsTyped, Watched
<1>4. conns[fd].ts # 0
  BY <1>1, <1>2, StampsGiven, Zenon DEF Inv
<1>5. conns[fd].ts # sweep.looked.ts
  BY <1>1, <1>3, Zenon DEF Inv, SweepInv, fd
<1> QED BY <1>1, <1>4, <1>5, Zenon DEF Inv, SweepInv, fd

\* deleteStaleConnections never deletes the entry of an open connection, unless that entry was
\* made after the sweep looked the stale one up again.
THEOREM SweepAlwaysSpares ==
  Spec => SweepSpares
<1>1. ASSUME Inv, [Next]_vars, sweep.looked # NoEntry, sweep' # sweep, how' # how
      PROVE  conns[sweep.looked.fd].ts > sweep.at
  <2>1. ~UNCHANGED vars
    BY <1>1, Zenon DEF vars, sweeps
  <2>2. DeleteStale
    <3>1. ASSUME NEW fd \in Fds
          PROVE  ~(\/ Connect(fd) \/ ConnectOther(fd) \/ ConnectAgain(fd) \/ Accept(fd) \/ Receive(fd) \/ OpenFile(fd)
                   \/ EnterClose(fd) \/ ReleaseFd(fd) \/ CloseSilently(fd) \/ Evict(fd)
                   \/ GcFind(fd) \/ GcDelete(fd))
      BY <1>1, Zenon DEF Connect, ConnectOther, ConnectAgain, Accept, Receive, OpenFile, EnterClose, ReleaseFd,
                         CloseSilently, Evict, GcFind, GcDelete, sweeps
    <3>2. ASSUME NEW c \in connecting PROVE ~(Established(c) \/ Refused(c) \/ Skipped(c))
      BY <1>1, Zenon DEF Established, Refused, Skipped, sweeps
    <3>3. ASSUME NEW a \in announcing PROVE ~Announce(a)
      BY <1>1, Zenon DEF Announce, sweeps
    <3>4. ASSUME NEW fd \in Fds, NEW socketOnly \in BOOLEAN PROVE ~(EnterWrite(fd, socketOnly) \/ EnterRead(fd, socketOnly))
      BY <1>1, Zenon DEF EnterWrite, EnterRead, sweeps
    <3>5. ~(SendRecord \/ ExitRead \/ EndCall)
      BY <1>1, Zenon DEF SendRecord, ExitRead, EndCall, sweeps
    <3>6. \A fd \in Fds : ~FindStale(fd)
      BY <1>1, Zenon DEF FindStale, descriptors
    <3>7. \A x \in sweep.found : ~LookUp(x)
      BY <1>1, Zenon DEF LookUp, descriptors
    <3> QED BY <1>1, <2>1, <3>1, <3>2, <3>3, <3>4, <3>5, <3>6, <3>7 DEF Next, Sweep
  <2> QED BY <1>1, <2>2, DeleteSpares, Zenon
<1>2. Inv /\ [Next]_vars =>
        [sweep.looked # NoEntry /\ sweep' # sweep /\ how' # how => conns[sweep.looked.fd].ts > sweep.at]_vars
  BY <1>1, Zenon
<1> QED BY <1>2, Invariance, PTL DEF Spec, SweepSpares

=============================================================================
