-------------------------------- MODULE Spool --------------------------------
(***************************************************************************)
(* The on-disk spool between the scrapes and the collector                 *)
(* (prom/remote_writer.go): scrapeLoop writes one file for every scrape,   *)
(* sendLoop sends the oldest one and removes it.  The two goroutines share *)
(* only the directory; the agent may be killed and started again at any    *)
(* step.  A scrape is named by its number, which orders its file name.     *)
(***************************************************************************)
EXTENDS Naturals, FiniteSets, FiniteSetsExt

CONSTANTS
  MaxSpoolSize,  \* --max-spool-size
  Leftovers,     \* what may be in the spool at first: EmptyFile, of an earlier version
  Sizes,         \* bound: the sizes of payloads
  MaxScrapes,    \* bound: scrapes
  MaxCrashes     \* bound: restarts of the agent

VARIABLES
  files,     \* the spool-*.done files: [scrape, size, complete]
  temps,     \* the temporary files of CreateTemp
  scrapes,   \* how many scrapes were taken
  writer,    \* scrapeLoop: [at, new (the payload to write), seen (listSpoolFiles)]
  sender,    \* sendLoop: [at, file]
  crashes,
  fate,      \* history: what the agent knows it did with a scrape that is not in the spool
  delivered, \* history: the scrapes the collector accepted
  last       \* history: the last scrape it accepted

disk    == <<files, temps>>
history == <<fate, delivered, last>>
vars    == <<disk, scrapes, writer, sender, crashes, history>>

Numbers == 1..MaxScrapes
Oldest(S) == CHOOSE f \in S : \A g \in S : f.scrape <= g.scrape
Size(S) == MapThenSumSet(LAMBDA f : f.size, S)

Idle == [at |-> "idle"]

EmptyFile == [scrape |-> 0, size |-> 0, complete |-> FALSE]

\* A payload is never empty: the snappy encoding begins with the length of what it encodes.
ASSUME SpoolAssumption ==
  /\ Leftovers \subseteq {EmptyFile} /\ Sizes \subseteq Nat \ {0}
  /\ MaxScrapes \in Nat /\ MaxCrashes \in Nat

Init ==
  /\ files \in SUBSET Leftovers /\ temps = {}
  /\ scrapes = 0 /\ crashes = 0 /\ writer = Idle /\ sender = Idle
  /\ fate = [n \in Numbers |-> "none"] /\ delivered = {} /\ last = 0

-----------------------------------------------------------------------------
(* scrapeLoop *)

\* scrape: the payload is made, writeToSpool begins with listSpoolFiles.
Scrape ==
  /\ writer.at = "idle" /\ scrapes < MaxScrapes
  /\ scrapes' = scrapes + 1
  /\ \E size \in Sizes :
       writer' = [at |-> IF Cardinality(files) <= 1 THEN "create" ELSE "sum",
                  new |-> [scrape |-> scrapes + 1, size |-> size, complete |-> TRUE], seen |-> files]
  /\ UNCHANGED <<disk, sender, crashes, history>>

\* The scrape is given up with an error, and so is what was written of it.
GiveUp(why) ==
  /\ writer' = Idle
  /\ fate' = [fate EXCEPT ![writer.new.scrape] = why]
  /\ UNCHANGED <<scrapes, sender, crashes, delivered, last>>

\* truncateSpoolIfNeeded: a file that sendLoop has removed since it was listed is an error.
SumSizes ==
  /\ writer.at = "sum"
  /\ IF writer.seen \subseteq files
       THEN /\ writer' = [writer EXCEPT !.at = IF Size(writer.seen) > MaxSpoolSize THEN "remove" ELSE "create"]
            /\ UNCHANGED <<scrapes, sender, crashes, history>>
       ELSE GiveUp("raced")
  /\ UNCHANGED disk

RemoveOldest ==
  /\ writer.at = "remove"
  /\ LET f == Oldest(writer.seen) IN
     IF f \in files
       THEN /\ files' = files \ {f}
            /\ writer' = [writer EXCEPT !.at = "create"]
            /\ fate' = IF f.scrape = 0 THEN fate ELSE [fate EXCEPT ![f.scrape] = "truncated"]
            /\ UNCHANGED <<scrapes, sender, crashes, delivered, last>>
       ELSE GiveUp("raced") /\ UNCHANGED files
  /\ UNCHANGED temps

\* CreateTemp
CreateTemp ==
  /\ writer.at = "create"
  /\ temps' = temps \union {[writer.new EXCEPT !.complete = FALSE]}
  /\ writer' = [writer EXCEPT !.at = "write"]
  /\ UNCHANGED <<files, scrapes, sender, crashes, history>>

\* Write and Sync; the deferred Remove takes the temporary file away if they fail.
WriteTemp ==
  /\ writer.at = "write"
  /\ LET torn == [writer.new EXCEPT !.complete = FALSE] IN
     \/ /\ temps' = (temps \ {torn}) \union {writer.new}
        /\ writer' = [writer EXCEPT !.at = "rename"]
        /\ UNCHANGED <<scrapes, sender, crashes, history>>
     \/ temps' = temps \ {torn} /\ GiveUp("disk")
  /\ UNCHANGED files

Rename ==
  /\ writer.at = "rename"
  /\ temps' = temps \ {writer.new}
  /\ files' = files \union {writer.new}
  /\ writer' = Idle
  /\ UNCHANGED <<scrapes, sender, crashes, history>>

-----------------------------------------------------------------------------
(* sendLoop *)

\* Mutant: the newest file is sent first.
PickNewest ==
  /\ sender.at = "idle" /\ files # {}
  /\ sender' = [at |-> "read", file |-> CHOOSE f \in files : \A g \in files : g.scrape <= f.scrape]
  /\ UNCHANGED <<disk, scrapes, writer, crashes, history>>

\* getOldestSpoolFile
Pick ==
  /\ sender.at = "idle" /\ files # {}
  /\ sender' = [at |-> "read", file |-> Oldest(files)]
  /\ UNCHANGED <<disk, scrapes, writer, crashes, history>>

\* Mutant: the file that is gone is tried again and again.
ReadStuck ==
  /\ sender.at = "read"
  /\ sender' = IF sender.file.size = 0 THEN Idle ELSE IF sender.file \in files THEN [sender EXCEPT !.at = "post"] ELSE sender
  /\ files' = IF sender.file.size = 0 THEN files \ {sender.file} ELSE files
  /\ UNCHANGED <<temps, scrapes, writer, crashes, history>>

\* An empty file is discarded, one that is gone cannot be read: after a while the next one is
\* looked for.
Read ==
  /\ sender.at = "read"
  /\ sender' = IF sender.file \in files /\ sender.file.size > 0 THEN [sender EXCEPT !.at = "post"] ELSE Idle
  /\ files' = IF sender.file.size = 0 THEN files \ {sender.file} ELSE files
  /\ UNCHANGED <<temps, scrapes, writer, crashes, history>>

Accept ==
  /\ delivered' = delivered \union {sender.file}
  /\ last' = sender.file.scrape

\* The answer of the collector.
Answered ==
  /\ sender.at = "post"
  /\ \/ Accept /\ sender' = [sender EXCEPT !.at = "remove"] /\ UNCHANGED fate
     \/ /\ sender' = [sender EXCEPT !.at = "remove"]
        /\ fate' = [fate EXCEPT ![sender.file.scrape] = "rejected"]
        /\ UNCHANGED <<delivered, last>>
  /\ UNCHANGED <<disk, scrapes, writer, crashes>>

\* Another status, a timeout or a broken connection, before or after the collector took the
\* payload: it is sent again after a while.
Failed ==
  /\ sender.at = "post"
  /\ sender' = Idle
  /\ Accept \/ UNCHANGED <<delivered, last>>
  /\ UNCHANGED <<disk, scrapes, writer, crashes, fate>>

\* Mutant: the file that is the oldest by now is removed.
RemoveFirst ==
  /\ sender.at = "remove"
  /\ files' = IF files = {} THEN files ELSE files \ {Oldest(files)}
  /\ sender' = Idle
  /\ UNCHANGED <<temps, scrapes, writer, crashes, history>>

RemoveSent ==
  /\ sender.at = "remove"
  /\ files' = files \ {sender.file}
  /\ sender' = Idle
  /\ UNCHANGED <<temps, scrapes, writer, crashes, history>>

-----------------------------------------------------------------------------
\* The agent is killed and started again: the directory is what is left.
Crash ==
  /\ crashes < MaxCrashes
  /\ crashes' = crashes + 1
  /\ writer' = Idle /\ sender' = Idle
  /\ fate' = IF writer.at = "idle" THEN fate ELSE [fate EXCEPT ![writer.new.scrape] = "crash"]
  /\ UNCHANGED <<disk, scrapes, delivered, last>>

WriterStep == SumSizes \/ RemoveOldest \/ CreateTemp \/ WriteTemp \/ Rename
SenderStep == Pick \/ Read \/ RemoveSent
Next == Scrape \/ WriterStep \/ SenderStep \/ Answered \/ Failed \/ Crash

\* Both loops go on, and a collector that is asked again and again answers at last.
Fairness == WF_vars(WriterStep) /\ WF_vars(SenderStep) /\ SF_vars(Answered)

Spec == Init /\ [][Next]_vars /\ Fairness
-----------------------------------------------------------------------------
(* Properties *)

File == {EmptyFile} \union [scrape : Numbers, size : Sizes, complete : BOOLEAN]

\* Type invariant.
TypeOK ==
  /\ files \subseteq File /\ temps \subseteq File /\ delivered \subseteq File
  /\ scrapes \in 0..MaxScrapes /\ crashes \in 0..MaxCrashes /\ last \in 0..MaxScrapes
  /\ writer.at \in {"idle", "sum", "remove", "create", "write", "rename"}
  /\ writer.at # "idle" => writer.new \in File /\ writer.seen \subseteq File
  /\ sender.at \in {"idle", "read", "post", "remove"}
  /\ sender.at # "idle" => sender.file \in File
  /\ fate \in [Numbers -> {"none", "raced", "disk", "truncated", "rejected", "crash"}]

Scrapes(S) == {f.scrape : f \in S}

\* Nothing is lost without the agent knowing: a scrape that was taken is in the spool or
\* being written, was accepted, or was given up for a reason (rejected by the collector,
\* truncated, an error of writeToSpool, a crash before the rename).  In particular sendLoop
\* removes no file that it did not send, whatever scrapeLoop does in between.
\* What is sent is a complete payload: a crash or an error while a file is written leaves
\* nothing that sendLoop would take for a scrape.
Accounted ==
  /\ TypeOK
  /\ \A n \in 1..scrapes :
       \/ n \in Scrapes(files) \union Scrapes(delivered)
       \/ fate[n] # "none"
       \/ writer.at # "idle" /\ writer.new.scrape = n
  /\ \A f \in files \union delivered : f.scrape # 0 => f.complete

\* The collector sees the samples in order: it never gets a scrape after a later one, across
\* restarts, retries of a payload that it had taken, and truncation (samples that are out of
\* order are refused by Prometheus).
InOrder == [][last' >= last]_vars

\* Once the collector answers, everything that was spooled leaves the spool.
Drained == \A n \in Numbers : []<>(n \notin Scrapes(files))
=============================================================================
