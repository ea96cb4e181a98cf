------------------------------ MODULE Journald ------------------------------
(***************************************************************************)
(* The reader of the journal (logs/journald_reader.go), one goroutine for  *)
(* all units, and the parsers of the containers that subscribe to a unit   *)
(* (Container.runLogParser, Pipeline.Stop).  EventLoop composes it with    *)
(* handleEvents, which creates and deletes the containers.                 *)
(***************************************************************************)
EXTENDS Integers, Sequences

CONSTANTS
  Services,    \* containers of systemd services, one after the other
  UnitOf,      \* the unit of each
  MaxEntries   \* bound: entries of the journal

ASSUME JournalAssumption == {0, -1} \cap Services = {} /\ DOMAIN UnitOf = Services /\ MaxEntries \in Nat

Units == {UnitOf[c] : c \in Services}
Nobody == 0
Gone == -1

VARIABLES
  journal,    \* the units of the entries that are not read yet
  written,    \* how many entries were written
  follow,     \* the goroutine: the parser it sends an entry to, Nobody, or Gone
  subscribers, \* JournaldReader.subscribers: the container whose channel it is
  parser,     \* the log parser of each container
  service,    \* a container is "new", "created" or "deleted"
  stopping,   \* the container that handleEvents is closing
  overtaken   \* history: a container unsubscribed while an entry was on its way to it

journalVars == <<journal, written, follow, subscribers, parser, service, stopping, overtaken>>

NoJournal ==
  /\ journal = <<>> /\ written = 0 /\ follow = Nobody
  /\ subscribers = [u \in Units |-> Nobody] /\ parser = [c \in Services |-> "none"]
  /\ service = [c \in Services |-> "new"] /\ stopping = Nobody /\ overtaken = FALSE

WriteEntry(u) ==
  /\ written < MaxEntries /\ written' = written + 1
  /\ journal' = Append(journal, u)
  /\ UNCHANGED <<follow, subscribers, parser, service, stopping, overtaken>>

\* An entry is read and its subscriber looked up under the lock; without one it is skipped.
Follow ==
  /\ follow = Nobody /\ journal # <<>> /\ journal' = Tail(journal)
  /\ follow' = subscribers[Head(journal)]
  /\ UNCHANGED <<written, subscribers, parser, service, stopping, overtaken>>

\* The journal cannot be read: the goroutine ends.
FollowFails ==
  /\ follow = Nobody /\ journal # <<>> /\ follow' = Gone
  /\ UNCHANGED <<journal, written, subscribers, parser, service, stopping, overtaken>>

\* The channel is not buffered: the parser has to receive.
Deliver ==
  /\ follow \in Services /\ parser[follow] = "running" /\ follow' = Nobody
  /\ UNCHANGED <<journal, written, subscribers, parser, service, stopping, overtaken>>

\* runLogParser: Subscribe refuses a unit that has a subscriber, and there is no parser then.
RunLogParser(c) ==
  IF subscribers[UnitOf[c]] = Nobody
  THEN subscribers' = [subscribers EXCEPT ![UnitOf[c]] = c] /\ parser' = [parser EXCEPT ![c] = "running"]
  ELSE UNCHANGED <<subscribers, parser>>

NewContainer(c) ==
  /\ service[c] = "new" /\ service' = [service EXCEPT ![c] = "created"]
  /\ RunLogParser(c)
  /\ UNCHANGED <<journal, written, follow, stopping, overtaken>>

\* Container.Close, of a container without a parser.
CloseSilent(c) ==
  /\ service[c] = "created" /\ parser[c] = "none" /\ service' = [service EXCEPT ![c] = "deleted"]
  /\ UNCHANGED <<journal, written, follow, subscribers, parser, stopping, overtaken>>

\* Container.Close, Pipeline.Stop: first JournaldUnsubscribe, under the lock of the reader ...
Unsubscribe(c) ==
  /\ service[c] = "created" /\ parser[c] = "running" /\ stopping' = c
  /\ subscribers' = [subscribers EXCEPT ![UnitOf[c]] = Nobody]
  /\ overtaken' = (overtaken \/ follow = c)
  /\ UNCHANGED <<journal, written, follow, parser, service>>

\* ... then Parser.Stop.
StopParser ==
  /\ stopping # Nobody /\ stopping' = Nobody
  /\ parser' = [parser EXCEPT ![stopping] = "stopped"]
  /\ service' = [service EXCEPT ![stopping] = "deleted"]
  /\ UNCHANGED <<journal, written, follow, subscribers, overtaken>>

Following == Follow \/ Deliver

-----------------------------------------------------------------------------
\* The entries of every unit are read and handed to the parser of its subscriber, or skipped
\* without one: the goroutine waits for a parser that was stopped only if its container
\* unsubscribed between the lookup and the send.
JournalFlows == []<>((journal = <<>> /\ follow = Nobody) \/ follow = Gone \/ overtaken)
=============================================================================
