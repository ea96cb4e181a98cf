----------------------------- MODULE TailReader ------------------------------
(***************************************************************************)
(* TailReader (logs/tail_reader.go): follows a log file that its writer    *)
(* appends to, rotates and truncates at any time.  What is appended at     *)
(* once is a piece: a line is one or more pieces.                          *)
(***************************************************************************)
EXTENDS Naturals, Sequences

CONSTANTS
  MaxWrites,     \* bound: pieces that are written
  MaxInodes,     \* bound: files that have the name one after the other
  MaxTruncates   \* bound: truncations

ASSUME BoundsAssumption == MaxWrites \in Nat /\ MaxInodes \in Nat \ {0} /\ MaxTruncates \in Nat

VARIABLES
  path,       \* the inode that has the name, 0 if there is none
  content,    \* the pieces in the file of an inode
  writes, inodes, truncates,
  at,         \* the goroutine: in ReadString, in poll before Stat, in poll after Stat
  file,       \* r.file: an inode, 0 for nil
  pos,        \* how far r.reader has read
  info,       \* r.info: inode and size
  seen,       \* what Stat returned in poll
  prefix,     \* the local variable prefix
  out,        \* the lines sent to r.ch
  mistaken    \* history: a file was opened that is not the one Stat saw

disk   == <<path, content, writes, inodes, truncates>>
reader == <<at, file, pos, info, seen, prefix, out, mistaken>>
vars   == <<disk, reader>>

Inodes == 1..MaxInodes
NoInfo == [inode |-> 0, size |-> 0]
Size(i) == Len(content[i])

\* NewTailReader finds an empty file or none.
Init ==
  /\ path \in {0, 1} /\ inodes = path
  /\ content = [i \in Inodes |-> <<>>] /\ writes = 0 /\ truncates = 0
  /\ file = path /\ at = (IF path = 0 THEN "poll" ELSE "read") /\ pos = 0
  /\ info = [inode |-> path, size |-> 0] /\ seen = NoInfo
  /\ prefix = <<>> /\ out = <<>> /\ mistaken = FALSE

-----------------------------------------------------------------------------
(* The writer of the log. *)

Append1(ends) ==
  /\ path # 0 /\ writes < MaxWrites
  /\ writes' = writes + 1
  /\ content' = [content EXCEPT ![path] = Append(@, [n |-> writes + 1, ends |-> ends])]
  /\ UNCHANGED <<path, inodes, truncates, reader>>

\* The file is renamed or deleted; a new one may take its name later.
MoveAway ==
  /\ path # 0 /\ path' = 0
  /\ UNCHANGED <<content, writes, inodes, truncates, reader>>

Create ==
  /\ path = 0 /\ inodes < MaxInodes
  /\ inodes' = inodes + 1 /\ path' = inodes + 1
  /\ UNCHANGED <<content, writes, truncates, reader>>

Truncate ==
  /\ path # 0 /\ content[path] # <<>> /\ truncates < MaxTruncates
  /\ truncates' = truncates + 1
  /\ content' = [content EXCEPT ![path] = <<>>]
  /\ UNCHANGED <<path, writes, inodes, reader>>

-----------------------------------------------------------------------------
(* The goroutine of the reader. *)

Unread == SubSeq(content[file], pos + 1, Size(file))
LineEnds == {k \in 1..Len(Unread) : Unread[k].ends}
LineEnd == IF LineEnds = {} THEN 0 ELSE CHOOSE k \in LineEnds : \A l \in LineEnds : k <= l

\* ReadString up to the end of a line, or of the file: then the rest replaces prefix.
ReadString ==
  /\ at = "read"
  /\ IF LineEnd > 0
       THEN /\ out' = Append(out, prefix \o SubSeq(Unread, 1, LineEnd))
            /\ prefix' = <<>> /\ pos' = pos + LineEnd /\ UNCHANGED at
       ELSE /\ prefix' = Unread /\ at' = "poll"
            /\ pos' = pos + Len(Unread) /\ UNCHANGED out
  /\ UNCHANGED <<disk, file, info, seen, mistaken>>

\* poll: Stat; a file that is gone is closed.
Stat ==
  /\ at = "poll"
  /\ IF path = 0
       THEN file' = 0 /\ UNCHANGED <<at, seen>>
       ELSE seen' = [inode |-> path, size |-> Size(path)] /\ at' = "check" /\ UNCHANGED file
  /\ UNCHANGED <<disk, pos, info, prefix, out, mistaken>>

\* The file with the name is opened, if there is one by now: which one it is, is not asked.
Open ==
  /\ IF path = 0
       THEN file' = 0 /\ at' = "poll" /\ UNCHANGED <<pos, info>>
       ELSE file' = path /\ pos' = 0 /\ info' = seen /\ at' = "read"
  /\ mistaken' = (mistaken \/ path \notin {0, seen.inode})
  /\ UNCHANGED <<disk, seen, prefix, out>>

\* poll with r.file nil, or moved.
Reopen ==
  /\ at = "check" /\ (file = 0 \/ info.inode # seen.inode)
  /\ Open

Same == at = "check" /\ file # 0 /\ info.inode = seen.inode

\* truncated
Rewind ==
  /\ Same /\ seen.size < info.size
  /\ pos' = 0 /\ info' = seen /\ at' = "read"
  /\ UNCHANGED <<disk, file, seen, prefix, out, mistaken>>

\* Mutant: what has grown is read from the start.
GoOnRewinds ==
  /\ Same /\ seen.size > info.size
  /\ pos' = 0 /\ info' = seen /\ at' = "read"
  /\ UNCHANGED <<disk, file, seen, prefix, out, mistaken>>

\* Mutant: a file that grew by one piece is not noticed.
GoOnLate ==
  /\ Same /\ seen.size > info.size + 1
  /\ info' = seen /\ at' = "read"
  /\ UNCHANGED <<disk, file, pos, seen, prefix, out, mistaken>>

\* appended
GoOn ==
  /\ Same /\ seen.size > info.size
  /\ info' = seen /\ at' = "read"
  /\ UNCHANGED <<disk, file, pos, seen, prefix, out, mistaken>>

PollAgain ==
  /\ Same /\ seen.size = info.size
  /\ at' = "poll"
  /\ UNCHANGED <<disk, file, pos, info, seen, prefix, out, mistaken>>

Writer == (\E ends \in BOOLEAN : Append1(ends)) \/ MoveAway \/ Create \/ Truncate
Reader == ReadString \/ Stat \/ Reopen \/ Rewind \/ GoOn \/ PollAgain
Next   == Writer \/ Reader

\* The ticker of poll fires; the parser takes the lines.
Spec == Init /\ [][Next]_vars /\ WF_vars(Reader)
-----------------------------------------------------------------------------
(* Properties *)

Piece == [n : 1..MaxWrites, ends : BOOLEAN]

\* Type invariant: no piece is read that was not there.
TypeOK ==
  /\ path \in 0..MaxInodes /\ inodes \in 0..MaxInodes
  /\ writes \in 0..MaxWrites /\ truncates \in 0..MaxTruncates
  /\ content \in [Inodes -> Seq(Piece)]
  /\ at \in {"read", "poll", "check"} /\ file \in 0..MaxInodes /\ (at = "read" => file # 0)
  /\ pos \in 0..MaxWrites
  /\ {info, seen} \subseteq [inode : 0..MaxInodes, size : 0..MaxWrites]
  /\ prefix \in Seq(Piece) /\ out \in Seq(Seq(Piece)) /\ mistaken \in BOOLEAN

\* The pieces of a line were written in this order, and those of another one after them.
Increasing(line) == \A k, l \in DOMAIN line : k < l => line[k].n < line[l].n
Below(line, next) == \A k \in DOMAIN line, l \in DOMAIN next : line[k].n < next[l].n

\* Nothing is sent twice or out of order, with appends and rotations at any point between
\* Stat, the opening of the file and the reads, unless another file than Stat saw was opened
\* or the file was truncated (then a line that was read is read again).
\* What is sent ends where a line ends and has no other end of a line in it. Its beginning can
\* be missing (ReadString in NewTailReader keeps what it read last, not what it had kept
\* before) or be the kept part of a file that was moved away.
OnceInOrder ==
  /\ TypeOK
  /\ \A i \in DOMAIN out : \A k \in DOMAIN out[i] : out[i][k].ends <=> k = Len(out[i])
  /\ \/ mistaken \/ truncates > 0
     \/ /\ \A i \in DOMAIN out : Increasing(out[i])
        /\ \A i, j \in DOMAIN out : i < j => Below(out[i], out[j])

\* What is appended to the file with the name is read to its end, across rotations, unless
\* a file was truncated.
ReadToTheEnd == <>[](path # 0 /\ truncates = 0 => file = path /\ pos = Size(path))
=============================================================================
