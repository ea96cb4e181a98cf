---------------------------- MODULE ReaderProofs ----------------------------
(***************************************************************************)
(* What is read of a container is reported once.                           *)
(*                                                                         *)
(* What the tail reader sends are ends of single lines, in the order in    *)
(* which they were written and none twice, for any number of writes,       *)
(* rotations and truncations.                                              *)
(*                                                                         *)
(* What the profiler reports of a Go process it does not report again, for *)
(* any number of processes and allocation sites.  The argument: the        *)
(* collector is one goroutine, so the last counters it subtracts are of    *)
(* the read before, or of another process, and then nothing was reported   *)
(* of this one: a process is read for the first time after those before it *)
(* are gone.                                                               *)
(***************************************************************************)
EXTENDS TailReader, Profiling, WellFoundedInduction, TLAPS

\* What is always true of the files: only the latest one has the name, the pieces are numbered
\* in the order in which they were written, from file to file.
DiskInv ==
  /\ path \in {0, inodes} /\ {file, info.inode, seen.inode} \subseteq 0..inodes
  /\ \A i \in Inodes : i > inodes => content[i] = <<>>
  /\ \A i \in Inodes : Size(i) <= writes /\ \A k \in 1..Size(i) : content[i][k].n <= writes
  /\ \A i \in Inodes : Increasing(content[i])
  /\ \A i, j \in Inodes : i < j => Below(content[i], content[j])

\* What is sent ends one line, and what is kept ends none.
LinesInv ==
  /\ \A i \in DOMAIN out : \A k \in DOMAIN out[i] : out[i][k].ends <=> k = Len(out[i])
  /\ \A k \in DOMAIN prefix : ~prefix[k].ends

\* A piece that is still to be read: behind the position in the file that is read, or in a
\* later file.
ToRead(i, k) == i > info.inode \/ (i = info.inode /\ k > pos)

\* The pieces of a line were written before everything that is still to be read, or written.
BeforeRest(line) ==
  \A m \in DOMAIN line :
    /\ line[m].n <= writes
    /\ \A i \in Inodes : \A k \in 1..Size(i) : ToRead(i, k) => line[m].n < content[i][k].n

\* r.info is the file that is read, or that was read before it went away; sizes only grow; and
\* a file that has come since is a later one.
InPlace ==
  /\ file \in {0, info.inode} /\ (file = 0 => path = 0 \/ path > info.inode)
  /\ info.inode # 0 => info.size <= Size(info.inode)
  /\ at = "check" =>
       /\ seen.inode # 0 /\ seen.inode >= info.inode /\ seen.size <= Size(seen.inode)
       /\ file = 0 => seen.inode > info.inode
       /\ seen.inode = info.inode => info.size <= seen.size

\* What was sent and what is kept is in order, and was written before what is to be read.
Ordered ==
  /\ \A i \in DOMAIN out : Increasing(out[i]) /\ Below(out[i], prefix) /\ BeforeRest(out[i])
  /\ \A i, j \in DOMAIN out : i < j => Below(out[i], out[j])
  /\ Increasing(prefix) /\ BeforeRest(prefix)

\* So it is as long as no file was truncated or taken for another one.
Faithful == InPlace /\ Ordered

TailInv == TypeOK /\ DiskInv /\ LinesInv /\ (mistaken \/ truncates > 0 \/ Faithful)

\* Of any non-empty set of naturals one is the least.
LEMMA LeastNatural ==
  ASSUME NEW S \in SUBSET Nat, S # {}
  PROVE  \E m \in S : \A n \in S : m <= n
<1>1. PICK m \in S : \A n \in S : ~(<<n, m>> \in OpToRel(<, Nat))
    BY NatLessThanWellFounded, WFMin, Zenon
<1>2. \A n \in S : ~(n < m)
    BY <1>1, Zenon DEF OpToRel
<1> QED BY <1>2

\* What is unread of the file, from the position of the reader on.
LEMMA UnreadFacts ==
  ASSUME TypeOK, file # 0
  PROVE  /\ file \in Inodes /\ content[file] \in Seq(Piece) /\ Size(file) \in Nat
         /\ Unread \in Seq(Piece) /\ Len(Unread) \in Nat
         /\ Len(Unread) = IF pos <= Size(file) THEN Size(file) - pos ELSE 0
         /\ \A k \in 1..Len(Unread) : pos + k \in 1..Size(file) /\ Unread[k] = content[file][pos + k]
<1>1. file \in Inodes /\ content[file] \in Seq(Piece) /\ Size(file) \in Nat /\ pos \in Nat
    <2>1. file \in Inodes /\ pos \in Nat
        BY BoundsAssumption DEF TypeOK, Inodes
    <2>2. content[file] \in Seq(Piece)
        BY <2>1, Zenon DEF TypeOK
    <2> QED BY <2>1, <2>2 DEF Size
<1> DEFINE c == content[file]
<1>2. c \in Seq(Piece) /\ Len(c) = Size(file) /\ Unread = SubSeq(c, pos + 1, Len(c))
    BY <1>1, Zenon DEF Unread, Size
<1> HIDE DEF c
<1>3. /\ Len(Unread) = IF pos <= Len(c) THEN Len(c) - pos ELSE 0
      /\ Unread \in Seq(Piece)
      /\ \A k \in 1..Len(Unread) : Unread[k] = c[pos + k]
    BY <1>1, <1>2, SMTT(30)
<1> QED BY <1>1, <1>2, <1>3 DEF c

\* LineEnd is the first piece of the unread ones that ends a line, 0 if none does.
LEMMA LineEndFacts ==
  ASSUME TypeOK, file # 0
  PROVE  /\ LineEnd \in 0..Len(Unread)
         /\ LineEnd # 0 => Unread[LineEnd].ends /\ \A k \in 1..(LineEnd - 1) : ~Unread[k].ends
         /\ LineEnd = 0 => \A k \in 1..Len(Unread) : ~Unread[k].ends
<1>1. LineEnds \subseteq 1..Len(Unread) /\ \A k \in 1..Len(Unread) : k \in LineEnds <=> Unread[k].ends
    BY Zenon DEF LineEnds
<1>2. Len(Unread) \in Nat
    BY UnreadFacts, Zenon
<1>3. CASE LineEnds = {}
    BY <1>1, <1>2, <1>3 DEF LineEnd
<1>4. CASE LineEnds # {}
    <2>1. LineEnds \in SUBSET Nat
        BY <1>1, <1>2
    <2>2. \E m \in LineEnds : \A n \in LineEnds : m <= n
        BY <1>4, <2>1, LeastNatural, Zenon
    <2>3. LineEnd \in LineEnds /\ \A n \in LineEnds : LineEnd <= n
        BY <1>4, <2>2, Zenon DEF LineEnd
    <2> QED BY <1>1, <1>2, <2>3
<1> QED BY <1>3, <1>4, Zenon

\* The line that is sent: what was kept and what was read up to the end of the line.
LEMMA LineFacts ==
  ASSUME NEW s \in Seq(Piece), NEW t \in Seq(Piece), NEW n \in 0..Len(t)
  PROVE  LET line == s \o SubSeq(t, 1, n) IN
         /\ line \in Seq(Piece) /\ Len(line) = Len(s) + n /\ DOMAIN line = 1..(Len(s) + n)
         /\ \A k \in 1..Len(s) : line[k] = s[k]
         /\ \A k \in (Len(s) + 1)..(Len(s) + n) : k - Len(s) \in 1..n /\ line[k] = t[k - Len(s)]
<1> DEFINE u == SubSeq(t, 1, n)
<1>1. u \in Seq(Piece) /\ Len(u) = n /\ \A k \in 1..n : u[k] = t[k]
    OBVIOUS
<1> HIDE DEF u
<1>2. /\ s \o u \in Seq(Piece) /\ Len(s \o u) = Len(s) + n
      /\ \A k \in 1..Len(s) : (s \o u)[k] = s[k]
      /\ \A k \in (Len(s) + 1)..(Len(s) + n) : (s \o u)[k] = u[k - Len(s)]
    <2>1. /\ s \o u \in Seq(Piece) /\ Len(s \o u) = Len(s) + Len(u)
          /\ \A i \in 1..(Len(s) + Len(u)) : (s \o u)[i] = IF i <= Len(s) THEN s[i] ELSE u[i - Len(s)]
        BY <1>1, SMTT(30)
    <2> QED BY <1>1, <2>1
<1>3. DOMAIN (s \o u) = 1..(Len(s) + n)
    BY <1>2
<1> QED BY <1>1, <1>2, <1>3 DEF u

\* What a write appends to the file with the name.
LEMMA AppendFacts ==
  ASSUME TailInv, NEW ends \in BOOLEAN, Append1(ends)
  PROVE  /\ path \in Inodes /\ path = inodes /\ writes + 1 \in 1..MaxWrites /\ writes' = writes + 1
         /\ content' \in [Inodes -> Seq(Piece)]
         /\ \A i \in Inodes : i # path => content'[i] = content[i]
         /\ Size(path)' = Size(path) + 1 /\ Size(path) \in Nat
         /\ \A k \in 1..Size(path) : content'[path][k] = content[path][k]
         /\ content'[path][Size(path) + 1] = [n |-> writes + 1, ends |-> ends]
         /\ UNCHANGED <<path, inodes, truncates, reader>>
<1>1. path \in Inodes /\ path = inodes /\ writes + 1 \in 1..MaxWrites
    BY BoundsAssumption DEF TailInv, DiskInv, TypeOK, Append1, Inodes
<1>2. content \in [Inodes -> Seq(Piece)] /\ content[path] \in Seq(Piece) /\ Len(content[path]) \in Nat
    BY <1>1, SMTT(30) DEF TailInv, TypeOK
<1> DEFINE p == [n |-> writes + 1, ends |-> ends]
<1>3. p \in Piece
    BY <1>1, Zenon DEF Piece
<1>4. content' = [content EXCEPT ![path] = Append(content[path], p)]
    BY Zenon DEF Append1
<1> HIDE DEF p
<1>5. /\ Append(content[path], p) \in Seq(Piece)
      /\ Len(Append(content[path], p)) = Len(content[path]) + 1
      /\ \A k \in 1..Len(content[path]) : Append(content[path], p)[k] = content[path][k]
      /\ Append(content[path], p)[Len(content[path]) + 1] = p
    BY <1>2, <1>3
<1>6. /\ content' \in [Inodes -> Seq(Piece)] /\ content'[path] = Append(content[path], p)
      /\ \A i \in Inodes : i # path => content'[i] = content[i]
    BY <1>1, <1>2, <1>4, <1>5, Zenon
<1>7. UNCHANGED <<path, inodes, truncates, reader>> /\ writes' = writes + 1
    BY Zenon DEF Append1
<1> QED BY <1>1, <1>2, <1>5, <1>6, <1>7 DEF Size, p

\* A truncated file is empty, the others are as they were.
LEMMA TruncateFacts ==
  ASSUME TailInv, Truncate
  PROVE  /\ content' \in [Inodes -> Seq(Piece)]
         /\ \A i \in Inodes : content'[i] = content[i] \/ content'[i] = <<>>
         /\ truncates' = truncates + 1 /\ truncates' \in 0..MaxTruncates
         /\ UNCHANGED <<path, writes, inodes, reader>>
<1>1. content \in [Inodes -> Seq(Piece)] /\ truncates \in Nat /\ truncates <= MaxTruncates /\ MaxTruncates \in Nat
    BY BoundsAssumption DEF TailInv, TypeOK
<1>2. content' = [content EXCEPT ![path] = <<>>] /\ <<>> \in Seq(Piece)
    BY DEF Truncate
<1>3. content' \in [Inodes -> Seq(Piece)] /\ \A i \in Inodes : content'[i] = content[i] \/ content'[i] = <<>>
    BY <1>1, <1>2, Zenon
<1>4. truncates' = truncates + 1 /\ truncates' \in 0..MaxTruncates /\ UNCHANGED <<path, writes, inodes, reader>>
    BY <1>1 DEF Truncate
<1> QED BY <1>3, <1>4, Zenon

\* The types of the sizes and of the pieces of a file.
LEMMA FileTypes ==
  ASSUME TailInv, NEW i \in Inodes
  PROVE  /\ i \in Nat \ {0} /\ content[i] \in Seq(Piece) /\ Size(i) \in Nat /\ DOMAIN content[i] = 1..Size(i)
         /\ \A k \in 1..Size(i) : content[i][k] \in Piece /\ content[i][k].n \in Nat
<1>1. content[i] \in Seq(Piece)
    BY Zenon DEF TailInv, TypeOK
<1>2. Len(content[i]) \in Nat /\ DOMAIN content[i] = 1..Len(content[i]) /\ \A k \in 1..Len(content[i]) : content[i][k] \in Piece
    BY <1>1
<1>3. \A p \in Piece : p.n \in Nat
    BY BoundsAssumption DEF Piece
<1> QED BY <1>1, <1>2, <1>3, BoundsAssumption DEF Inodes, Size

\* Every step keeps the pieces on the disk in order.
LEMMA DiskStep == TailInv /\ [Next]_vars => DiskInv'
<1> SUFFICES ASSUME TailInv, [Next]_vars PROVE DiskInv'
    BY Zenon
<1>0. /\ DiskInv /\ inodes \in Nat /\ inodes <= MaxInodes /\ MaxInodes \in Nat /\ writes \in Nat /\ path \in Nat
      /\ file \in Nat /\ info.inode \in Nat /\ seen.inode \in Nat
    BY BoundsAssumption DEF TailInv, TypeOK
<1> USE <1>0
<1>1. ASSUME NEW ends \in BOOLEAN, Append1(ends) PROVE DiskInv'
    <2>1. /\ path \in Inodes /\ path = inodes /\ writes' = writes + 1
          /\ \A i \in Inodes : i # path => content'[i] = content[i]
          /\ Size(path)' = Size(path) + 1 /\ Size(path) \in Nat
          /\ \A k \in 1..Size(path) : content'[path][k] = content[path][k]
          /\ content'[path][Size(path) + 1] = [n |-> writes + 1, ends |-> ends]
          /\ UNCHANGED <<path, inodes, truncates, reader>>
        BY <1>1, AppendFacts, Zenon
    <2>2. content' \in [Inodes -> Seq(Piece)]
        BY <1>1, AppendFacts, Zenon
    <2>3. \A i \in Inodes : DOMAIN content'[i] = 1..Size(i)' /\ Size(i)' \in Nat
        BY <2>2 DEF Size
    <2>4. \A i \in Inodes : i # path => Size(i)' = Size(i)
        BY <2>1, Zenon DEF Size
    <2>5. ASSUME NEW i \in Inodes, NEW k \in 1..Size(i)'
          PROVE  \/ k \in 1..Size(i) /\ content'[i][k] = content[i][k] /\ content[i][k].n <= writes /\ content[i][k].n \in Nat
                 \/ i = path /\ k = Size(path) + 1 /\ content'[i][k].n = writes + 1
        <3>1. CASE i # path
            BY <2>1, <2>4, <3>1, FileTypes, Zenon DEF DiskInv
        <3>2. CASE i = path
            <4>1. k \in 1..Size(path) \/ k = Size(path) + 1
                BY <2>1, <3>2
            <4> QED BY <2>1, <3>2, <4>1, FileTypes DEF DiskInv
        <3> QED BY <3>1, <3>2, Zenon
    <2>6. \A i \in Inodes : Size(i)' <= writes' /\ \A k \in 1..Size(i)' : content'[i][k].n <= writes'
        BY <2>1, <2>4, <2>5, FileTypes, SMTT(30) DEF DiskInv
    <2>7. ASSUME NEW i \in Inodes, NEW k \in 1..Size(i)', NEW l \in 1..Size(i)', k < l
          PROVE  content'[i][k].n < content'[i][l].n
        <3>1. k \in 1..Size(i) /\ content'[i][k] = content[i][k] /\ content[i][k].n <= writes /\ content[i][k].n \in Nat
            BY <2>1, <2>3, <2>5, <2>7, SMTT(30)
        <3>2. CASE l \in 1..Size(i) /\ content'[i][l] = content[i][l]
            BY <2>7, <3>1, <3>2, FileTypes, Zenon DEF DiskInv, Increasing
        <3>3. CASE content'[i][l].n = writes + 1
            BY <3>1, <3>3
        <3> QED BY <2>5, <3>2, <3>3, Zenon
    <2>8. ASSUME NEW i \in Inodes, NEW j \in Inodes, i < j, NEW k \in 1..Size(i)', NEW l \in 1..Size(j)'
          PROVE  content'[i][k].n < content'[j][l].n
        <3>1. CASE i = path
            <4>1. content[j] = <<>> /\ j # path
                BY <2>1, <2>8, <3>1, FileTypes DEF DiskInv
            <4>2. Size(j)' = 0
                BY <2>4, <4>1, Zenon DEF Size
            <4> QED BY <2>8, <4>2
        <3>2. CASE i # path
            <4>1. k \in 1..Size(i) /\ content'[i][k] = content[i][k] /\ content[i][k].n <= writes /\ content[i][k].n \in Nat
                BY <2>5, <3>2, Zenon
            <4>2. CASE l \in 1..Size(j) /\ content'[j][l] = content[j][l]
                BY <2>8, <4>1, <4>2, FileTypes, Zenon DEF DiskInv, Below
            <4>3. CASE content'[j][l].n = writes + 1
                BY <4>1, <4>3
            <4> QED BY <2>5, <4>2, <4>3, Zenon
        <3> QED BY <3>1, <3>2, Zenon
    <2>9. \A i \in Inodes : i > inodes' => content'[i] = <<>>
        BY <2>1, FileTypes DEF DiskInv
    <2>10. path' \in {0, inodes'} /\ {file', info'.inode, seen'.inode} \subseteq 0..inodes'
        BY <2>1, Zenon DEF DiskInv, reader
    <2>11. (\A i \in Inodes : Increasing(content[i]))'
        BY <2>3, <2>7, Zenon DEF Increasing
    <2>12. (\A i, j \in Inodes : i < j => Below(content[i], content[j]))'
        BY <2>3, <2>8, Zenon DEF Below
    <2> QED BY <2>6, <2>9, <2>10, <2>11, <2>12, Zenon DEF DiskInv
<1>2. ASSUME UNCHANGED <<content, writes>>, path' \in {0, inodes'}, inodes' \in Nat, inodes' >= inodes,
             {file', info'.inode, seen'.inode} \subseteq 0..inodes'
      PROVE  DiskInv'
    BY <1>2, FileTypes DEF DiskInv, Size
<1>3. CASE MoveAway \/ Create
    BY <1>2, <1>3 DEF MoveAway, Create, reader, DiskInv
<1>4. CASE Truncate
    <2>1. /\ \A i \in Inodes : content'[i] = content[i] \/ content'[i] = <<>>
          /\ UNCHANGED <<path, writes, inodes, file, info, seen>>
        BY <1>4, TruncateFacts, Zenon DEF reader
    <2>2. \A i \in Inodes : content'[i] = content[i] \/ (DOMAIN content'[i] = {} /\ Size(i)' = 0 /\ 1..Size(i)' = {})
        BY <2>1 DEF Size
    <2>3. \A i \in Inodes : content'[i] = content[i] => Size(i)' = Size(i)
        BY Zenon DEF Size
    <2>4. (\A i \in Inodes : Size(i) <= writes /\ \A k \in 1..Size(i) : content[i][k].n <= writes)'
        BY <2>1, <2>2, <2>3 DEF DiskInv
    <2>5. (\A i \in Inodes : Increasing(content[i]))' /\ (\A i, j \in Inodes : i < j => Below(content[i], content[j]))'
        BY <2>2, Zenon DEF DiskInv, Increasing, Below
    <2>6. (\A i \in Inodes : i > inodes => content[i] = <<>>)'
        BY <2>1, Zenon DEF DiskInv
    <2> QED BY <2>1, <2>4, <2>5, <2>6, Zenon DEF DiskInv
<1>5. CASE Reader
    <2>1. UNCHANGED disk /\ {file', info'.inode, seen'.inode} \subseteq 0..inodes
        BY <1>5 DEF Reader, ReadString, Stat, Reopen, Open, Rewind, GoOn, PollAgain, DiskInv
    <2> QED BY <1>2, <2>1 DEF disk, DiskInv
<1>6. CASE UNCHANGED vars
    BY <1>2, <1>6 DEF vars, disk, reader, DiskInv
<1> QED BY <1>1, <1>3, <1>4, <1>5, <1>6, Zenon DEF Next, Writer

\* What a read does to the lines: it sends the kept piece of a line with its end, or keeps
\* what it read.
LEMMA ReadFacts ==
  ASSUME TailInv, ReadString
  PROVE  /\ file # 0 /\ LineEnd \in 0..Len(Unread) /\ Len(Unread) \in Nat
         /\ UNCHANGED <<disk, file, info, seen, mistaken>>
         /\ \/ /\ LineEnd > 0 /\ out' = Append(out, prefix \o SubSeq(Unread, 1, LineEnd))
               /\ prefix' = <<>> /\ pos' = pos + LineEnd /\ at' = at
            \/ /\ LineEnd = 0 /\ prefix' = Unread /\ at' = "poll"
               /\ pos' = pos + Len(Unread) /\ out' = out
<1>1. file # 0 /\ TypeOK
    BY Zenon DEF TailInv, TypeOK, ReadString
<1>2. LineEnd \in 0..Len(Unread) /\ Len(Unread) \in Nat
    BY <1>1, LineEndFacts, UnreadFacts, Zenon
<1>3. LineEnd > 0 \/ LineEnd = 0
    BY <1>2
<1> QED BY <1>1, <1>2, <1>3, Zenon DEF ReadString

\* Every step keeps the types.
LEMMA TypeStep == TailInv /\ [Next]_vars => TypeOK'
<1> SUFFICES ASSUME TailInv, [Next]_vars PROVE TypeOK'
    OBVIOUS
<1>0. TypeOK /\ DiskInv /\ MaxWrites \in Nat /\ MaxInodes \in Nat /\ MaxTruncates \in Nat
    BY BoundsAssumption, Zenon DEF TailInv
<1> USE <1>0
<1>1. ASSUME NEW ends \in BOOLEAN, Append1(ends) PROVE TypeOK'
    <2>1. content' \in [Inodes -> Seq(Piece)] /\ writes + 1 \in 1..MaxWrites /\ writes' = writes + 1
        BY <1>1, AppendFacts, Zenon
    <2>2. UNCHANGED <<path, inodes, truncates, at, file, pos, info, seen, prefix, out, mistaken>>
        BY <1>1, Zenon DEF Append1, reader
    <2> QED BY <2>1, <2>2 DEF TypeOK
<1>2. CASE MoveAway \/ Create
    <2>1. UNCHANGED <<content, writes, truncates, at, file, pos, info, seen, prefix, out, mistaken>>
        BY <1>2, Zenon DEF MoveAway, Create, reader
    <2>2. path' \in 0..MaxInodes /\ inodes' \in 0..MaxInodes
        BY <1>2, SMTT(30) DEF MoveAway, Create, TypeOK
    <2> QED BY <2>1, <2>2, Zenon DEF TypeOK
<1>3. CASE Truncate
    <2>1. content' \in [Inodes -> Seq(Piece)] /\ truncates' \in 0..MaxTruncates
        BY <1>3, TruncateFacts, Zenon
    <2> QED BY <1>3, <2>1, Zenon DEF Truncate, TypeOK, reader
<1>4. CASE ReadString
    <2>1. /\ file # 0 /\ LineEnd \in 0..Len(Unread) /\ UNCHANGED <<disk, file, info, seen, mistaken>>
        BY <1>4, ReadFacts, Zenon
    <2>2. /\ Unread \in Seq(Piece) /\ Size(file) \in Nat /\ Len(Unread) \in Nat /\ file \in Inodes
          /\ Len(Unread) = IF pos <= Size(file) THEN Size(file) - pos ELSE 0
        BY <2>1, UnreadFacts, Zenon
    <2>3. Size(file) <= MaxWrites
        BY <2>2, SMTT(30) DEF DiskInv, TypeOK
    <2>4. \A n \in 0..Len(Unread) : pos + n \in 0..MaxWrites
        BY <2>2, <2>3, SMTT(30) DEF TypeOK
    <2>5. prefix \o SubSeq(Unread, 1, LineEnd) \in Seq(Piece)
        BY <2>1, <2>2, LineFacts, Zenon DEF TypeOK
    <2>6. pos' \in 0..MaxWrites
        BY <1>4, <2>1, <2>2, <2>4, ReadFacts
    <2>7. prefix' \in Seq(Piece) /\ out' \in Seq(Seq(Piece))
        <3>1. CASE prefix' = <<>> /\ out' = Append(out, prefix \o SubSeq(Unread, 1, LineEnd))
            BY <2>5, <3>1 DEF TypeOK
        <3>2. CASE prefix' = Unread /\ out' = out
            BY <2>2, <3>2, Zenon DEF TypeOK
        <3> QED BY <1>4, <3>1, <3>2, ReadFacts, Zenon
    <2>8. at' \in {"read", "poll", "check"}
        BY <1>4, ReadFacts, Zenon DEF TypeOK
    <2> QED BY <2>1, <2>6, <2>7, <2>8, Zenon DEF TypeOK, disk
<1>5. CASE Stat
    <2>1. path # 0 => [inode |-> path, size |-> Size(path)] \in [inode : 0..MaxInodes, size : 0..MaxWrites]
        <3> SUFFICES ASSUME path # 0 PROVE Size(path) \in 0..MaxWrites /\ path \in 0..MaxInodes
            BY Zenon
        <3>1. path \in Inodes
            BY DEF TypeOK, Inodes
        <3> QED BY <3>1, FileTypes DEF DiskInv, TypeOK
    <2> QED BY <1>5, <2>1, Zenon DEF Stat, TypeOK, disk
<1>6. CASE Reopen
    BY <1>6 DEF Reopen, Open, TypeOK, disk
<1>7. CASE Rewind \/ GoOn \/ PollAgain
    <2>1. UNCHANGED <<path, content, writes, inodes, truncates, file, seen, prefix, out, mistaken>> /\ file # 0
        BY <1>7, Zenon DEF Rewind, GoOn, PollAgain, Same, disk
    <2>2. at' \in {"read", "poll"} /\ pos' \in {0, pos} /\ info' \in {info, seen}
        BY <1>7, Zenon DEF Rewind, GoOn, PollAgain
    <2> QED BY <2>1, <2>2 DEF TypeOK
<1>8. CASE UNCHANGED vars
    BY <1>8, Zenon DEF vars, disk, reader, TypeOK
<1> QED BY <1>1, <1>2, <1>3, <1>4, <1>5, <1>6, <1>7, <1>8, Zenon DEF Next, Writer, Reader

\* Every step sends the end of a line only, and keeps no end.
LEMMA LinesStep == TailInv /\ [Next]_vars => LinesInv'
<1> SUFFICES ASSUME TailInv, [Next]_vars PROVE LinesInv'
    OBVIOUS
<1>1. CASE ReadString
    <2>1. /\ file # 0 /\ TypeOK /\ LinesInv /\ LineEnd \in 0..Len(Unread) /\ Len(Unread) \in Nat
          /\ prefix \in Seq(Piece) /\ out \in Seq(Seq(Piece))
        BY <1>1, ReadFacts, Zenon DEF TailInv, TypeOK
    <2>2. Unread \in Seq(Piece) /\ DOMAIN Unread = 1..Len(Unread)
        BY <2>1, UnreadFacts
    <2> DEFINE line == prefix \o SubSeq(Unread, 1, LineEnd)
    <2>3. CASE LineEnd > 0 /\ out' = Append(out, line) /\ prefix' = <<>>
        <3>1. /\ line \in Seq(Piece) /\ Len(line) = Len(prefix) + LineEnd /\ DOMAIN line = 1..(Len(prefix) + LineEnd)
              /\ \A k \in 1..Len(prefix) : line[k] = prefix[k]
              /\ \A k \in (Len(prefix) + 1)..(Len(prefix) + LineEnd) :
                   k - Len(prefix) \in 1..LineEnd /\ line[k] = Unread[k - Len(prefix)]
            BY <2>1, <2>2, LineFacts, SMTT(30)
        <3>2. Len(prefix) \in Nat /\ DOMAIN prefix = 1..Len(prefix)
            BY <2>1
        <3>3. Unread[LineEnd].ends /\ \A k \in 1..(LineEnd - 1) : ~Unread[k].ends
            BY <2>1, <2>3, LineEndFacts
        <3> HIDE DEF line
        <3>4. ASSUME NEW k \in DOMAIN line PROVE line[k].ends <=> k = Len(line)
            <4>1. CASE k \in 1..Len(prefix)
                <5>1. line[k] = prefix[k] /\ ~prefix[k].ends
                    BY <2>1, <3>1, <3>2, <4>1, Zenon DEF LinesInv
                <5> QED BY <2>1, <2>3, <3>1, <3>2, <4>1, <5>1
            <4>2. CASE k \in (Len(prefix) + 1)..(Len(prefix) + LineEnd)
                <5>1. k - Len(prefix) \in 1..LineEnd /\ line[k] = Unread[k - Len(prefix)]
                    BY <3>1, <4>2, Zenon
                <5>2. CASE k - Len(prefix) = LineEnd
                    <6>1. line[k].ends
                        BY <3>3, <5>1, <5>2, Zenon
                    <6>2. k = Len(line)
                        BY <2>1, <3>1, <3>2, <4>2, <5>2
                    <6> QED BY <6>1, <6>2, Zenon
                <5>3. CASE k - Len(prefix) \in 1..(LineEnd - 1)
                    <6>1. ~line[k].ends
                        BY <3>3, <5>1, <5>3, Zenon
                    <6>2. k # Len(line)
                        BY <2>1, <3>1, <3>2, <4>2, <5>3
                    <6> QED BY <6>1, <6>2, Zenon
                <5> QED BY <2>1, <3>2, <4>2, <5>1, <5>2, <5>3
            <4> QED BY <2>1, <3>1, <3>2, <4>1, <4>2
        <3>5. /\ Len(out') = Len(out) + 1 /\ Len(out) \in Nat /\ DOMAIN out' = 1..Len(out')
              /\ DOMAIN out = 1..Len(out)
              /\ \A i \in 1..Len(out) : out'[i] = out[i]
              /\ out'[Len(out) + 1] = line
            BY <2>1, <2>3, <3>1
        <3>6. ASSUME NEW i \in DOMAIN out', NEW k \in DOMAIN out'[i] PROVE out'[i][k].ends <=> k = Len(out'[i])
            <4>1. CASE i \in 1..Len(out)
                BY <2>1, <3>5, <4>1 DEF LinesInv
            <4>2. CASE i = Len(out) + 1
                BY <3>4, <3>5, <4>2, Zenon
            <4> QED BY <3>5, <4>1, <4>2
        <3> QED BY <2>3, <3>6 DEF LinesInv
    <2>4. CASE LineEnd = 0 /\ prefix' = Unread /\ out' = out
        BY <2>1, <2>2, <2>4, LineEndFacts, Zenon DEF LinesInv
    <2> QED BY <1>1, <2>3, <2>4, ReadFacts, Zenon
<1>2. CASE UNCHANGED <<out, prefix>>
    BY <1>2, Zenon DEF TailInv, LinesInv
<1> QED
    BY <1>1, <1>2, Zenon DEF Next, Writer, Reader, Append1, MoveAway, Create, Truncate, Stat, Reopen, Open,
       Rewind, GoOn, PollAgain, reader, vars

\* A read of n pieces after what was written before them: the order goes on, and what is behind
\* the new position was written later.
LEMMA ReadInOrder ==
  ASSUME TailInv, Faithful, file # 0, NEW s \in Seq(Piece), Increasing(s), BeforeRest(s),
         NEW n \in 0..Len(Unread), pos' = pos + n, UNCHANGED <<disk, info>>,
         NEW line, line = s \o SubSeq(Unread, 1, n)
  PROVE  /\ line \in Seq(Piece) /\ Increasing(line) /\ BeforeRest(line)'
         /\ \A o \in Seq(Piece) : BeforeRest(o) => BeforeRest(o)' /\ (Below(o, s) => Below(o, line))
<1>0. TypeOK /\ DiskInv /\ file = info.inode
    BY Zenon DEF TailInv, Faithful, InPlace
<1>1. /\ file \in Inodes /\ Size(file) \in Nat /\ Unread \in Seq(Piece) /\ Len(Unread) \in Nat
      /\ \A k \in 1..Len(Unread) : pos + k \in 1..Size(file) /\ Unread[k] = content[file][pos + k]
    BY <1>0, UnreadFacts, Zenon
<1>2. /\ line \in Seq(Piece) /\ DOMAIN line = 1..(Len(s) + n)
      /\ \A k \in 1..Len(s) : line[k] = s[k]
      /\ \A k \in (Len(s) + 1)..(Len(s) + n) : k - Len(s) \in 1..n /\ line[k] = Unread[k - Len(s)]
    BY <1>1, LineFacts
<1>3. Len(s) \in Nat /\ DOMAIN s = 1..Len(s) /\ pos \in Nat /\ n \in Nat
    BY <1>0, <1>1, BoundsAssumption DEF TypeOK
<1>4. writes' = writes /\ info' = info /\ content' = content /\ \A i : Size(i)' = Size(i)
    BY Zenon DEF disk, Size
\* Where a piece of the line comes from.
<1>5. ASSUME NEW k \in DOMAIN line
      PROVE  \/ k \in DOMAIN s /\ line[k] = s[k]
             \/ /\ k \in (Len(s) + 1)..(Len(s) + n) /\ k - Len(s) \in 1..n
                /\ pos + (k - Len(s)) \in 1..Size(file) /\ line[k] = content[file][pos + (k - Len(s))]
    <2>1. CASE k \in 1..Len(s)
        BY <1>2, <1>3, <2>1, Zenon
    <2>2. CASE k \in (Len(s) + 1)..(Len(s) + n)
        <3>1. k - Len(s) \in 1..n /\ line[k] = Unread[k - Len(s)]
            BY <1>2, <2>2, Zenon
        <3>2. k - Len(s) \in 1..Len(Unread)
            BY <1>1, <1>3, <3>1
        <3> QED BY <1>1, <2>2, <3>1, <3>2, Zenon
    <2> QED BY <1>2, <1>3, <2>1, <2>2
<1>6. \A m \in 1..n : pos + m > pos /\ pos + m <= pos + n
    BY <1>3
<1>7. \A i, k : ToRead(i, k)' => (i > info.inode \/ (i = info.inode /\ k > pos + n))
    BY <1>4, Zenon DEF ToRead
<1>8. ASSUME NEW i \in Inodes, NEW k \in 1..Size(i), ToRead(i, k)' PROVE ToRead(i, k)
    BY <1>3, <1>7, <1>8, FileTypes DEF ToRead
<1>9. ASSUME NEW o \in Seq(Piece), BeforeRest(o) PROVE BeforeRest(o)'
    BY <1>4, <1>8, <1>9, Zenon DEF BeforeRest
<1>10. Increasing(line)
    <2> SUFFICES ASSUME NEW k \in DOMAIN line, NEW l \in DOMAIN line, k < l PROVE line[k].n < line[l].n
        BY Zenon DEF Increasing
    <2>1. CASE l \in DOMAIN s /\ line[l] = s[l]
        <3>1. k \in DOMAIN s /\ line[k] = s[k]
            BY <1>2, <1>3, <2>1
        <3> QED BY <2>1, <3>1, Zenon DEF Increasing
    <2>2. CASE l \in (Len(s) + 1)..(Len(s) + n) /\ line[l] = content[file][pos + (l - Len(s))]
        <3>0. l - Len(s) \in 1..n
            BY <1>2, <2>2, Zenon
        <3>1. l - Len(s) \in 1..n /\ pos + (l - Len(s)) \in 1..Size(file) /\ pos + (l - Len(s)) > pos
            <4>1. l - Len(s) \in 1..Len(Unread)
                BY <1>1, <1>3, <3>0
            <4> QED BY <1>1, <1>3, <3>0, <4>1, SMTT(30)
        <3>2. CASE k \in DOMAIN s /\ line[k] = s[k]
            <4>1. ToRead(file, pos + (l - Len(s)))
                BY <1>0, <3>1, Zenon DEF ToRead
            <4> QED BY <1>1, <2>2, <3>1, <3>2, <4>1, Zenon DEF BeforeRest
        <3>3. CASE k - Len(s) \in 1..n /\ pos + (k - Len(s)) \in 1..Size(file) /\ line[k] = content[file][pos + (k - Len(s))]
            <4>1. pos + (k - Len(s)) < pos + (l - Len(s))
                BY <1>2, <1>3
            <4>2. DOMAIN content[file] = 1..Size(file) /\ Increasing(content[file])
                BY <1>0, <1>1, FileTypes, Zenon DEF DiskInv
            <4> QED BY <2>2, <3>1, <3>3, <4>1, <4>2, Zenon DEF Increasing
        <3> QED BY <1>5, <3>2, <3>3, Zenon
    <2> QED BY <1>5, <2>1, <2>2, Zenon
<1>11. BeforeRest(line)'
    <2> SUFFICES ASSUME NEW m \in DOMAIN line
                 PROVE  /\ line[m].n <= writes
                        /\ \A i \in Inodes : \A k \in 1..Size(i) : ToRead(i, k)' => line[m].n < content[i][k].n
        BY <1>4, Zenon DEF BeforeRest
    <2>1. CASE m \in DOMAIN s /\ line[m] = s[m]
        BY <1>8, <2>1, Zenon DEF BeforeRest
    <2>2. CASE m - Len(s) \in 1..n /\ pos + (m - Len(s)) \in 1..Size(file) /\ line[m] = content[file][pos + (m - Len(s))]
        <3> DEFINE q == pos + (m - Len(s))
        <3>1. q \in 1..Size(file) /\ q <= pos + n /\ line[m] = content[file][q] /\ q \in Nat
            BY <1>2, <1>3, <2>2, SMTT(30)
        <3> HIDE DEF q
        <3>2. line[m].n <= writes
            BY <1>0, <1>1, <3>1, Zenon DEF DiskInv
        <3>3. ASSUME NEW i \in Inodes, NEW k \in 1..Size(i), ToRead(i, k)' PROVE content[file][q].n < content[i][k].n
            <4>1. CASE i > file
                BY <1>0, <1>1, <3>1, <4>1, FileTypes, Zenon DEF DiskInv, Below
            <4>2. CASE i = file /\ k > pos + n
                <5>1. q < k
                    BY <1>1, <1>3, <3>1, <4>2
                <5> QED BY <1>0, <1>1, <3>1, <4>2, <5>1, FileTypes, Zenon DEF DiskInv, Increasing
            <4> QED BY <1>0, <1>7, <3>3, <4>1, <4>2, Zenon
        <3> QED BY <3>1, <3>2, <3>3, Zenon
    <2> QED BY <1>5, <2>1, <2>2, Zenon
<1>12. ASSUME NEW o \in Seq(Piece), BeforeRest(o), Below(o, s) PROVE Below(o, line)
    <2> SUFFICES ASSUME NEW k \in DOMAIN o, NEW l \in DOMAIN line PROVE o[k].n < line[l].n
        BY Zenon DEF Below
    <2>1. CASE l \in DOMAIN s /\ line[l] = s[l]
        BY <1>12, <2>1, Zenon DEF Below
    <2>2. CASE l - Len(s) \in 1..n /\ pos + (l - Len(s)) \in 1..Size(file) /\ line[l] = content[file][pos + (l - Len(s))]
        <3>1. pos + (l - Len(s)) > pos
            BY <1>3, <2>2
        <3>2. ToRead(file, pos + (l - Len(s)))
            BY <1>0, <3>1, Zenon DEF ToRead
        <3> QED BY <1>1, <1>12, <2>2, <3>2, Zenon DEF BeforeRest
    <2> QED BY <1>5, <2>1, <2>2, Zenon
<1> QED BY <1>2, <1>9, <1>10, <1>11, <1>12, Zenon

\* A step that reads nothing leaves what was read before what is to be read.
LEMMA RestStep ==
  ASSUME TailInv, Faithful, Next, ~ReadString, ~mistaken', truncates' = 0,
         NEW o \in Seq(Piece), BeforeRest(o)
  PROVE  BeforeRest(o)'
<1>0. /\ TypeOK /\ DiskInv /\ InPlace
      /\ pos \in Nat /\ info.inode \in Nat /\ path \in Nat /\ seen.inode \in Nat /\ truncates \in Nat
    BY BoundsAssumption DEF TailInv, Faithful, TypeOK
<1>1. ASSUME NEW ends \in BOOLEAN, Append1(ends) PROVE BeforeRest(o)'
    <2> SUFFICES ASSUME NEW m \in DOMAIN o
                 PROVE  /\ o[m].n <= writes'
                        /\ \A i \in Inodes : \A k \in 1..Size(i)' : ToRead(i, k)' => o[m].n < content'[i][k].n
        BY Zenon DEF BeforeRest
    <2>0. /\ path \in Inodes /\ writes' = writes + 1
          /\ \A i \in Inodes : i # path => content'[i] = content[i]
          /\ Size(path)' = Size(path) + 1 /\ Size(path) \in Nat
          /\ \A k \in 1..Size(path) : content'[path][k] = content[path][k]
          /\ content'[path][Size(path) + 1] = [n |-> writes + 1, ends |-> ends]
          /\ UNCHANGED <<path, inodes, truncates, reader>>
        BY <1>1, AppendFacts, Zenon
    <2>1. /\ writes \in Nat /\ UNCHANGED <<pos, info>>
          /\ \A i \in Inodes : i # path => Size(i)' = Size(i)
          /\ content'[path][Size(path) + 1].n = writes + 1
        <3>1. writes \in Nat
            BY <1>0, BoundsAssumption DEF TypeOK
        <3>2. UNCHANGED <<pos, info>>
            BY <2>0, Zenon DEF reader
        <3>3. \A i \in Inodes : i # path => Size(i)' = Size(i)
            BY <2>0, Zenon DEF Size
        <3>4. content'[path][Size(path) + 1].n = writes + 1
            BY <2>0
        <3> QED BY <3>1, <3>2, <3>3, <3>4, Zenon
    <2>2. o[m].n <= writes /\ o[m].n \in Nat
        <3>1. o[m] \in Piece
            OBVIOUS
        <3>2. \A p \in Piece : p.n \in Nat
            BY BoundsAssumption DEF Piece
        <3> QED BY <3>1, <3>2, Zenon DEF BeforeRest
    <2>3. ASSUME NEW i \in Inodes, NEW k \in 1..Size(i)', ToRead(i, k)' PROVE o[m].n < content'[i][k].n
        <3>1. ToRead(i, k)
            BY <2>1, <2>3, Zenon DEF ToRead
        <3>2. CASE i = path /\ k = Size(path) + 1
            BY <2>0, <2>1, <2>2, <3>2
        <3>3. CASE i = path /\ k # Size(path) + 1
            <4>1. k \in 1..Size(path)
                BY <2>0, <3>3
            <4> QED BY <2>0, <3>1, <3>3, <4>1, Zenon DEF BeforeRest
        <3>4. CASE i # path
            BY <2>0, <2>1, <3>1, <3>4, Zenon DEF BeforeRest
        <3> QED BY <3>2, <3>3, <3>4, Zenon
    <2> QED BY <2>0, <2>1, <2>2, <2>3
<1>2. CASE MoveAway \/ Create \/ Stat \/ PollAgain \/ GoOn
    <2>1. UNCHANGED <<content, writes, pos>> /\ info'.inode = info.inode
        BY <1>2, Zenon DEF MoveAway, Create, Stat, PollAgain, GoOn, Same, disk, reader
    <2> QED BY <2>1, Zenon DEF BeforeRest, ToRead, Size
<1>3. CASE Truncate
    BY <1>0, <1>3 DEF Truncate
<1>4. CASE Reopen
    <2>1. UNCHANGED <<content, writes>>
        BY <1>4, Zenon DEF Reopen, Open, disk
    <2>2. CASE path = 0
        <3>1. UNCHANGED <<pos, info>>
            BY <1>4, <2>2, Zenon DEF Reopen, Open
        <3> QED BY <2>1, <3>1, Zenon DEF BeforeRest, ToRead, Size
    <2>3. CASE path # 0
        <3>1. pos' = 0 /\ info' = seen /\ at = "check" /\ path = seen.inode
            BY <1>4, <2>3, Zenon DEF Reopen, Open
        <3>2. seen.inode > info.inode
            BY <1>0, <1>4, <3>1 DEF InPlace, Reopen
        <3>3. \A i \in Inodes : \A k \in 1..Size(i) : ToRead(i, k)' => ToRead(i, k)
            BY <1>0, <3>1, <3>2, BoundsAssumption DEF ToRead, Inodes
        <3> QED BY <2>1, <3>3, Zenon DEF BeforeRest, Size
    <2> QED BY <2>2, <2>3, Zenon
<1>5. CASE Rewind
    BY <1>0, <1>5 DEF Rewind, Same, InPlace, TypeOK
<1> QED BY <1>1, <1>2, <1>3, <1>4, <1>5, Zenon DEF Next, Writer, Reader

\* Every step keeps what is sent and what is kept in order.
LEMMA OrderedStep ==
  ASSUME TailInv, Faithful, [Next]_vars, ~mistaken', truncates' = 0
  PROVE  Ordered'
<1>0. /\ TypeOK /\ Ordered /\ InPlace /\ prefix \in Seq(Piece) /\ out \in Seq(Seq(Piece))
      /\ Len(out) \in Nat /\ DOMAIN out = 1..Len(out)
      /\ \A i \in DOMAIN out : out[i] \in Seq(Piece)
    BY DEF TailInv, Faithful, TypeOK
<1>1. CASE ReadString
    <2>1. /\ file # 0 /\ LineEnd \in 0..Len(Unread) /\ Len(Unread) \in Nat
          /\ UNCHANGED <<disk, info>>
        BY <1>1, ReadFacts, Zenon
    <2>2. Unread \in Seq(Piece)
        BY <1>0, <2>1, UnreadFacts, Zenon
    <2>3. CASE LineEnd > 0 /\ out' = Append(out, prefix \o SubSeq(Unread, 1, LineEnd)) /\ prefix' = <<>> /\ pos' = pos + LineEnd
        <3>a. PICK s \in Seq(Piece), n \in 0..Len(Unread) : s = prefix /\ n = LineEnd
            BY <1>0, <2>1, Zenon
        <3>b. PICK line : line = s \o SubSeq(Unread, 1, n)
            BY Zenon
        <3>1. s = prefix /\ n = LineEnd /\ line = s \o SubSeq(Unread, 1, n)
            BY <3>a, <3>b, Zenon
        <3>2. Increasing(s) /\ BeforeRest(s)
            BY <1>0, <3>1, Zenon DEF Ordered
        <3>3. /\ line \in Seq(Piece) /\ Increasing(line) /\ BeforeRest(line)'
              /\ \A o \in Seq(Piece) : BeforeRest(o) => BeforeRest(o)' /\ (Below(o, s) => Below(o, line))
            <4>1. pos' = pos + n
                BY <2>3, <3>1, Zenon
            <4>2. line = s \o SubSeq(Unread, 1, n)
                BY <3>1, Zenon
            <4>3. file # 0 /\ UNCHANGED <<disk, info>>
                BY <2>1, Zenon
            <4>4. line \in Seq(Piece) /\ Increasing(line) /\ BeforeRest(line)'
                BY <3>2, <4>1, <4>2, <4>3, ReadInOrder, Zenon
            <4>5. ASSUME NEW o \in Seq(Piece), BeforeRest(o) PROVE BeforeRest(o)'
                BY <3>2, <4>1, <4>2, <4>3, <4>5, ReadInOrder, Zenon
            <4>6. ASSUME NEW o \in Seq(Piece), BeforeRest(o), Below(o, s) PROVE Below(o, line)
                BY <3>2, <4>1, <4>2, <4>3, <4>6, ReadInOrder, Zenon
            <4> QED BY <4>4, <4>5, <4>6, Zenon
        <3>4. out' = Append(out, line)
            BY <2>3, <3>1, Zenon
        <3>5. /\ Len(out') = Len(out) + 1 /\ DOMAIN out' = 1..(Len(out) + 1)
              /\ \A i \in 1..Len(out) : out'[i] = out[i]
              /\ out'[Len(out) + 1] = line
            BY <1>0, <3>3, <3>4
        <3>6. ASSUME NEW i \in 1..Len(out)
              PROVE  Increasing(out'[i]) /\ BeforeRest(out[i])' /\ Below(out'[i], line)
            <4>1. PICK o \in Seq(Piece) : o = out[i]
                BY <1>0, Zenon
            <4>2. BeforeRest(o) /\ Below(o, s) /\ Increasing(o)
                BY <1>0, <3>1, <4>1, Zenon DEF Ordered
            <4>3. BeforeRest(o)' /\ Below(o, line)
                BY <3>3, <4>2, Zenon
            <4>4. out'[i] = o
                BY <3>5, <4>1, Zenon
            <4> QED BY <4>2, <4>3, <4>4, Zenon DEF BeforeRest
        <3>7. ASSUME NEW i \in DOMAIN out'
              PROVE  Increasing(out'[i]) /\ BeforeRest(out[i])'
            <4>1. CASE i \in 1..Len(out)
                BY <3>6, <4>1, Zenon
            <4>2. CASE i = Len(out) + 1
                BY <3>3, <3>5, <4>2, Zenon DEF BeforeRest
            <4> QED BY <1>0, <3>5, <4>1, <4>2
        <3>8. ASSUME NEW i \in DOMAIN out', NEW j \in DOMAIN out', i < j PROVE Below(out'[i], out'[j])
            <4>1. i \in 1..Len(out)
                BY <1>0, <3>5, <3>8
            <4>2. CASE j = Len(out) + 1
                BY <3>5, <3>6, <4>1, <4>2, Zenon
            <4>3. CASE j \in 1..Len(out)
                BY <1>0, <3>5, <3>8, <4>1, <4>3, Zenon DEF Ordered
            <4> QED BY <1>0, <3>5, <4>2, <4>3
        <3>9. DOMAIN prefix' = {}
            BY <2>3
        <3> QED BY <3>7, <3>8, <3>9, Zenon DEF Ordered, Increasing, Below, BeforeRest
    <2>4. CASE prefix' = Unread /\ pos' = pos + Len(Unread) /\ out' = out
        <3>0. <<>> \in Seq(Piece) /\ Len(Unread) \in 0..Len(Unread)
            BY <2>1
        <3>a. PICK s \in Seq(Piece), n \in 0..Len(Unread) : s = <<>> /\ n = Len(Unread)
            BY <3>0, Zenon
        <3>b. PICK line : line = s \o SubSeq(Unread, 1, n)
            BY Zenon
        <3>1. s = <<>> /\ n = Len(Unread) /\ line = s \o SubSeq(Unread, 1, n)
            BY <3>a, <3>b, Zenon
        <3>2. DOMAIN s = {}
            BY <3>1
        <3>3. Increasing(s) /\ BeforeRest(s) /\ \A o : Below(o, s)
            BY <3>2, Zenon DEF Increasing, BeforeRest, Below
        <3>4. /\ line \in Seq(Piece) /\ Increasing(line) /\ BeforeRest(line)'
              /\ \A o \in Seq(Piece) : BeforeRest(o) => BeforeRest(o)' /\ (Below(o, s) => Below(o, line))
            BY <2>1, <2>4, <3>1, <3>3, ReadInOrder, Zenon
        <3>5. prefix' = line
            BY <2>1, <2>2, <2>4, <3>1
        <3>6. ASSUME NEW i \in DOMAIN out
              PROVE  BeforeRest(out[i])' /\ Below(out[i], line)
            <4>1. PICK o \in Seq(Piece) : o = out[i]
                BY <1>0, Zenon
            <4>2. BeforeRest(o)
                BY <1>0, <4>1, Zenon DEF Ordered
            <4>3. BeforeRest(o)' /\ Below(o, line)
                BY <3>3, <3>4, <4>2, Zenon
            <4> QED BY <2>4, <4>1, <4>3, Zenon DEF BeforeRest
        <3>7. BeforeRest(prefix)' /\ Increasing(prefix')
            BY <3>4, <3>5, Zenon DEF BeforeRest
        <3> QED BY <1>0, <2>4, <3>5, <3>6, <3>7, Zenon DEF Ordered
    <2> QED BY <1>1, <2>3, <2>4, ReadFacts, Zenon
<1>2. CASE Next /\ ~ReadString
    <2>1. UNCHANGED <<out, prefix>>
        BY <1>2, Zenon DEF Next, Writer, Reader, Append1, MoveAway, Create, Truncate, Stat, Reopen, Open,
           Rewind, GoOn, PollAgain, reader
    <2>2. \A o \in Seq(Piece) : BeforeRest(o) => BeforeRest(o)'
        BY <1>2, RestStep, Zenon
    <2>3. PICK s \in Seq(Piece) : s = prefix
        BY <1>0, Zenon
    <2>4. BeforeRest(prefix)'
        <3>1. BeforeRest(s)'
            BY <1>0, <2>2, <2>3, Zenon DEF Ordered
        <3> QED BY <2>1, <2>3, <3>1, Zenon DEF BeforeRest
    <2>5. ASSUME NEW i \in DOMAIN out PROVE BeforeRest(out[i])'
        <3>1. PICK o \in Seq(Piece) : o = out[i]
            BY <1>0, Zenon
        <3>2. BeforeRest(o)'
            BY <1>0, <2>2, <3>1, Zenon DEF Ordered
        <3> QED BY <2>1, <3>1, <3>2, Zenon DEF BeforeRest
    <2> QED BY <1>0, <2>1, <2>4, <2>5, Zenon DEF Ordered
<1>3. CASE UNCHANGED vars
    BY <1>0, <1>3 DEF vars, disk, reader, Ordered, BeforeRest, ToRead, Size
<1> QED BY <1>1, <1>2, <1>3, Zenon

\* Every step leaves r.info with the file that is read, as long as Open opens what Stat saw.
LEMMA InPlaceStep ==
  ASSUME TailInv, Faithful, [Next]_vars, ~mistaken', truncates' = 0
  PROVE  InPlace'
<1>0. /\ TypeOK /\ DiskInv /\ InPlace /\ inodes \in Nat /\ path \in Nat /\ truncates \in Nat
      /\ info.inode \in 0..MaxInodes /\ seen.inode \in 0..MaxInodes /\ info.size \in Nat /\ seen.size \in Nat
      /\ info.inode <= inodes /\ seen.inode <= inodes /\ path \in {0, inodes}
    BY BoundsAssumption DEF TailInv, Faithful, TypeOK, DiskInv
<1>1. /\ info.inode # 0 => info.inode \in Inodes /\ Size(info.inode) \in Nat
      /\ seen.inode # 0 => seen.inode \in Inodes /\ Size(seen.inode) \in Nat
      /\ path # 0 => path \in Inodes /\ Size(path) \in Nat
    <2>1. /\ info.inode # 0 => info.inode \in Inodes
          /\ seen.inode # 0 => seen.inode \in Inodes
          /\ path # 0 => path \in Inodes
        BY <1>0, BoundsAssumption, SMTT(30) DEF Inodes, TypeOK
    <2> QED BY <2>1, FileTypes, Zenon
<1>2. ASSUME NEW ends \in BOOLEAN, Append1(ends) PROVE InPlace'
    <2>1. /\ path \in Inodes /\ path = inodes /\ writes + 1 \in 1..MaxWrites /\ writes' = writes + 1
          /\ \A i \in Inodes : i # path => content'[i] = content[i]
          /\ Size(path)' = Size(path) + 1 /\ Size(path) \in Nat
          /\ UNCHANGED <<path, inodes, truncates, reader>>
        BY <1>2, AppendFacts, Zenon
    <2>2. UNCHANGED <<at, file, info, seen, path>>
        BY <2>1, Zenon DEF reader
    <2>3. \A i \in Inodes : i # path => Size(i)' = Size(i)
        BY <2>1, Zenon DEF Size
    <2>4. ASSUME NEW i \in Inodes PROVE Len(content'[i]) \in Nat /\ Len(content'[i]) >= Size(i)
        <3>1. CASE i = path
            <4>1. Len(content'[path]) = Size(path) + 1
                BY <2>1, Zenon DEF Size
            <4> QED BY <2>1, <3>1, <4>1
        <3>2. CASE i # path
            BY <2>1, <3>2, FileTypes DEF Size
        <3> QED BY <3>1, <3>2, Zenon
    <2>5. info.inode # 0 => info.size <= Len(content'[info.inode])
        BY <1>0, <1>1, <2>4 DEF InPlace
    <2>6. at = "check" => seen.size <= Len(content'[seen.inode])
        BY <1>0, <1>1, <2>4 DEF InPlace
    <2> QED BY <1>0, <2>2, <2>5, <2>6, Zenon DEF InPlace, Size
<1>3. CASE MoveAway
    BY <1>0, <1>3, Zenon DEF MoveAway, InPlace, Size, reader
<1>4. CASE Create
    <2>1. path' = inodes + 1 /\ UNCHANGED <<content, at, file, info, seen>>
        BY <1>4, Zenon DEF Create, reader
    <2>2. path' > info.inode
        BY <1>0, <2>1
    <2> QED BY <1>0, <2>1, <2>2, Zenon DEF InPlace, Size
<1>5. CASE Truncate
    BY <1>0, <1>5 DEF Truncate
<1>6. CASE ReadString
    <2>1. UNCHANGED <<path, content, file, info, seen>> /\ at' \in {"read", "poll"}
        BY <1>6, ReadFacts, Zenon DEF disk, ReadString
    <2> QED BY <1>0, <2>1, Zenon DEF InPlace, Size
<1>7. CASE Stat /\ path = 0
    <2>1. UNCHANGED <<path, content, info, seen, at>> /\ at = "poll" /\ file' = 0
        BY <1>7, Zenon DEF Stat, disk
    <2> QED BY <1>0, <1>7, <2>1, Zenon DEF InPlace, Size
<1>8. CASE Stat /\ path # 0
    <2>1. /\ UNCHANGED <<path, content, info, file>> /\ at' = "check"
          /\ seen' = [inode |-> path, size |-> Size(path)]
        BY <1>8, Zenon DEF Stat, disk
    <2>2. seen'.inode = path /\ seen'.size = Size(path)
        BY <2>1, Zenon
    <2>3. Size(path)' = Size(path) /\ Size(info.inode)' = Size(info.inode) /\ path >= info.inode
        BY <1>0, <1>8, <2>1, Zenon DEF Size
    <2>4. path = info.inode => info.size <= Size(path)
        BY <1>0, <1>8, Zenon DEF InPlace
    <2> QED BY <1>0, <1>1, <1>8, <2>1, <2>2, <2>3, <2>4 DEF InPlace
<1>9. CASE Reopen
    <2>1. UNCHANGED <<path, content, seen>> /\ at = "check"
        BY <1>9, Zenon DEF Reopen, Open, disk
    <2>2. CASE path = 0
        <3>1. file' = 0 /\ at' = "poll" /\ UNCHANGED info
            BY <1>9, <2>2, Zenon DEF Reopen, Open
        <3> QED BY <1>0, <2>1, <2>2, <3>1, Zenon DEF InPlace, Size
    <2>3. CASE path # 0
        <3>1. file' = path /\ info' = seen /\ at' = "read" /\ path = seen.inode
            BY <1>9, <2>3, Zenon DEF Reopen, Open
        <3> QED BY <1>0, <2>1, <2>3, <3>1, Zenon DEF InPlace, Size
    <2> QED BY <2>2, <2>3, Zenon
<1>10. CASE Rewind
    BY <1>0, <1>10 DEF Rewind, Same, InPlace
<1>11. CASE GoOn
    <2>1. UNCHANGED <<path, content, seen, file>> /\ at = "check" /\ info.inode = seen.inode /\ info' = seen /\ at' = "read" /\ file # 0
        BY <1>11, Zenon DEF GoOn, Same, disk
    <2> QED BY <1>0, <2>1, Zenon DEF InPlace, Size
<1>12. CASE PollAgain
    <2>1. UNCHANGED <<path, content, seen, file, info>> /\ at' = "poll"
        BY <1>12, Zenon DEF PollAgain, disk
    <2> QED BY <1>0, <2>1, Zenon DEF InPlace, Size
<1>13. CASE UNCHANGED vars
    BY <1>0, <1>13, Zenon DEF vars, disk, reader, InPlace, Size
<1> QED
    BY <1>2, <1>3, <1>4, <1>5, <1>6, <1>7, <1>8, <1>9, <1>10, <1>11, <1>12, <1>13, Zenon DEF Next, Writer, Reader

\* The reader begins with an empty file or none.
LEMMA TailInit == Init => TailInv
<1> SUFFICES ASSUME Init PROVE TailInv
    BY Zenon
<1>1. /\ path \in {0, 1} /\ inodes = path /\ writes = 0 /\ truncates = 0 /\ pos = 0 /\ file = path
      /\ at \in {"poll", "read"} /\ (at = "read" => file # 0)
      /\ info = [inode |-> path, size |-> 0] /\ seen = [inode |-> 0, size |-> 0]
      /\ prefix = <<>> /\ out = <<>> /\ mistaken = FALSE
      /\ content = [i \in Inodes |-> <<>>]
    BY Zenon DEF Init, NoInfo
<1>2. \A i \in Inodes : content[i] = <<>> /\ Size(i) = 0 /\ DOMAIN content[i] = {}
    BY <1>1 DEF Size
<1>3. DOMAIN prefix = {} /\ DOMAIN out = {} /\ prefix \in Seq(Piece) /\ out \in Seq(Seq(Piece))
    BY <1>1
<1>4. TypeOK
    <2>1. content \in [Inodes -> Seq(Piece)]
        BY <1>1
    <2>2. {info, seen} \subseteq [inode : 0..MaxInodes, size : 0..MaxWrites]
        BY <1>1, BoundsAssumption
    <2>3. path \in 0..MaxInodes /\ inodes \in 0..MaxInodes /\ file \in 0..MaxInodes
        BY <1>1, BoundsAssumption
    <2>4. writes \in 0..MaxWrites /\ truncates \in 0..MaxTruncates /\ pos \in 0..MaxWrites
        BY <1>1, BoundsAssumption
    <2>5. at \in {"read", "poll", "check"} /\ (at = "read" => file # 0) /\ mistaken \in BOOLEAN
        BY <1>1, Zenon
    <2> QED BY <1>3, <2>1, <2>2, <2>3, <2>4, <2>5, Zenon DEF TypeOK
<1>5. DiskInv
    <2>1. {file, info.inode, seen.inode} \subseteq 0..inodes
        BY <1>1
    <2> QED BY <1>1, <1>2, <2>1 DEF DiskInv, Increasing, Below
<1>6. LinesInv
    BY <1>3, Zenon DEF LinesInv
<1>7. InPlace
    <2>1. info.inode = path /\ info.size = 0
        BY <1>1, Zenon
    <2>2. info.inode # 0 => info.inode \in Inodes
        BY <1>1, <2>1, BoundsAssumption DEF Inodes
    <2> QED BY <1>1, <1>2, <2>1, <2>2 DEF InPlace
<1>8. Ordered
    BY <1>3, Zenon DEF Ordered, Increasing, Below, BeforeRest
<1> QED BY <1>4, <1>5, <1>6, <1>7, <1>8, Zenon DEF TailInv, Faithful

\* The tail reader (logs/tail_reader.go) keeps its invariant: the pieces on the disk in order,
\* no line without its end sent and, until a file is truncated or taken for another, its place
\* in the files and the order of what it read.
THEOREM TailInvariant == Spec => []TailInv
<1>1. TailInv /\ [Next]_vars => TailInv'
    <2> SUFFICES ASSUME TailInv, [Next]_vars PROVE TailInv'
        BY Zenon
    <2>1. TypeOK' /\ DiskInv' /\ LinesInv'
        BY TypeStep, DiskStep, LinesStep, Zenon
    <2>2. CASE mistaken' \/ truncates' > 0
        BY <2>1, <2>2, Zenon DEF TailInv
    <2>3. CASE ~mistaken' /\ ~(truncates' > 0)
        <3>1. truncates' = 0 /\ truncates \in Nat /\ truncates' \in Nat
            BY <2>1, <2>3, BoundsAssumption DEF TypeOK, TailInv
        <3>2. truncates' = truncates \/ truncates' = truncates + 1
            BY Zenon DEF Next, Writer, Reader, Append1, MoveAway, Create, Truncate, ReadString, Stat,
               Reopen, Open, Rewind, GoOn, PollAgain, disk, reader, vars
        <3>3. ~mistaken
            <4>1. mistaken' = mistaken \/ Reopen
                BY Zenon DEF Next, Writer, Reader, Append1, MoveAway, Create, Truncate, ReadString, Stat,
                   Rewind, GoOn, PollAgain, disk, reader, vars
            <4> QED BY <2>3, <4>1, Zenon DEF Reopen, Open
        <3>4. truncates = 0
            BY <3>1, <3>2
        <3>5. Faithful
            BY <3>3, <3>4 DEF TailInv
        <3>6. InPlace' /\ Ordered'
            BY <2>3, <3>1, <3>5, InPlaceStep, OrderedStep, Zenon
        <3> QED BY <2>1, <3>6, Zenon DEF TailInv, Faithful
    <2> QED BY <2>2, <2>3, Zenon
<1> QED BY <1>1, TailInit, PTL DEF Spec

\* Whatever is appended, moved away, created and truncated at whatever moment of poll
\* (logs/tail_reader.go), what is sent ends one line, and the pieces are sent in the order in
\* which they were written and none twice, unless a file was truncated or opened in place of
\* the one that Stat saw.
THEOREM SentOnceInOrder == Spec => []OnceInOrder
<1>1. TailInv => OnceInOrder
    BY Zenon DEF TailInv, LinesInv, Faithful, Ordered, OnceInOrder
<1> QED BY <1>1, TailInvariant, PTL

-----------------------------------------------------------------------------
(* The profiler. *)

\* The counters of the allocation sites.
Counts == [Buckets -> Nat]

\* The types of what the reports depend on.
ProcessTypes ==
  /\ last \in 0..MaxProcs /\ proc \in {None, last} /\ infos \in Procs \union {None} /\ torn \subseteq Procs
  /\ allocs \in [Procs -> Counts] /\ reported \in [Procs -> Counts]
TargetType ==
  /\ target \in [proc : Procs \union {None}, initialized : BOOLEAN, isJvm : BOOLEAN, isGo : BOOLEAN,
                 started : BOOLEAN, err : BOOLEAN, hasPrev : BOOLEAN, prev : Counts]
  /\ target.proc = None => ~target.hasPrev
CollectorType ==
  col \in [pc : {"idle", "jvm", "deploy", "started", "failed", "collect", "go", "read", "store"},
          proc : Procs \union {None}, hasPrev : BOOLEAN, prev : Counts]
ProfilerTypes == ProcessTypes /\ TargetType /\ CollectorType

\* Nothing is reported of a process before it starts.
NothingEarly == \A p \in Procs : p > last => reported[p] = NoCounts

\* From these last counters the reports of p go on: nothing new is counted twice.
GoesOn(p, prev) == \A b \in Buckets : reported[p][b] <= prev[b] /\ prev[b] <= allocs[p][b]

\* Of the process that has the pid nothing was reported yet (the last counters may be those of
\* a process before it), or the reports go on from the last counters the collector uses next:
\* those it copied or has read, and those of the target unless it is about to replace them.
LastCounters ==
  proc \in Procs \ torn =>
    \/ reported[proc] = NoCounts
    \/ /\ target.hasPrev /\ col.pc # "store" => GoesOn(proc, target.prev)
       /\ col.pc = "store" \/ (col.pc = "read" /\ col.hasPrev) => GoesOn(proc, col.prev)

\* The inductive invariant.  That nothing is reported twice needs to know which counters are
\* subtracted next.
ProfilerInv == ProfilerTypes /\ NothingEarly /\ ReportedOnce /\ LastCounters

\* No counts are counts, and no process has the number of None.
LEMMA NoCountsType == NoCounts \in Counts /\ None \notin Procs
BY ProfilingAssumption DEF NoCounts, Counts, None, Procs

\* At first nothing was reported.
LEMMA ProfilerStart == ProfilerInit => ProfilerInv
<1> SUFFICES ASSUME ProfilerInit PROVE ProfilerInv
    OBVIOUS
<1>1. ProfilerTypes
  <2>1. ProcessTypes
      BY NoCountsType, ProfilingAssumption DEF ProfilerInit, ProcessTypes, None, Procs
  <2>2. TargetType /\ CollectorType
      BY NoCountsType DEF ProfilerInit, TargetType, CollectorType, NoTarget, At
  <2> QED
      BY <2>1, <2>2 DEF ProfilerTypes
<1>2. NothingEarly /\ LastCounters
    BY NoCountsType DEF ProfilerInit, NothingEarly, LastCounters
<1>3. ReportedOnce
    BY NoCountsType DEF ProfilerInit, ReportedOnce, NoCounts
<1> QED
    BY <1>1, <1>2, <1>3 DEF ProfilerInv

\* The steps that read no counters leave the last counters as good as they were.
LEMMA SameCounters ==
  ASSUME ProfilerInv, UNCHANGED <<last, proc, allocs, reported, torn>>,
         target'.hasPrev => target.hasPrev /\ target'.prev = target.prev,
         col.pc = "store" \/ col'.pc = "store" => col' = col,
         col'.pc = "read" /\ col'.hasPrev =>
           col' = col \/ (target.hasPrev /\ col'.prev = target.prev)
  PROVE  NothingEarly' /\ ReportedOnce' /\ LastCounters'
<1>1. NothingEarly' /\ ReportedOnce'
    BY Zenon DEF ProfilerInv, NothingEarly, ReportedOnce
<1>2. \A prev : GoesOn(proc, prev) => GoesOn(proc, prev)'
    BY Zenon DEF GoesOn
<1>3. LastCounters'
    BY <1>2, Zenon DEF ProfilerInv, LastCounters
<1> QED
    BY <1>1, <1>3

\* A process starts with nothing reported; one that allocates more stays ahead of the reports.
LEMMA ProcessKeeps ==
  ASSUME ProfilerInv, Start \/ Exit \/ \E b \in Buckets : Alloc(b)
  PROVE  ProfilerInv'
<1> USE DEF ProfilerInv
<1>1. CASE Start
  <2>1. last' = last + 1 /\ proc' = last' /\ infos' = last' /\ last' \in 1..MaxProcs
      BY <1>1, ProfilingAssumption DEF Start, ProfilerTypes, ProcessTypes
  <2>2. UNCHANGED <<allocs, torn, reported, target, col>>
      BY <1>1, Zenon DEF Start, results
  <2>3. ProfilerTypes'
    <3>1. ProcessTypes'
        BY <2>1, <2>2, ProfilingAssumption DEF ProfilerTypes, ProcessTypes, Procs
    <3>2. TargetType' /\ CollectorType'
        BY <2>2 DEF ProfilerTypes, TargetType, CollectorType
    <3> QED
        BY <3>1, <3>2 DEF ProfilerTypes
  <2>4. \A p \in Procs : p > last' => p > last
      BY <2>1, ProfilingAssumption DEF ProfilerTypes, ProcessTypes, Procs
  <2>5. NothingEarly' /\ ReportedOnce'
      BY <2>2, <2>4, Zenon DEF NothingEarly, ReportedOnce
  <2>6. proc' \in Procs /\ proc' > last
      BY <2>1, ProfilingAssumption DEF ProfilerTypes, ProcessTypes, Procs
  <2>7. LastCounters'
      BY <2>2, <2>6, Zenon DEF NothingEarly, LastCounters
  <2> QED
      BY <2>3, <2>5, <2>7, Zenon
<1>2. CASE Exit
  <2>1. proc' = None /\ UNCHANGED <<last, infos, allocs, torn, reported, target, col>>
      BY <1>2, Zenon DEF Exit, results
  <2>2. ProfilerTypes'
      BY <2>1 DEF ProfilerTypes, ProcessTypes, TargetType, CollectorType
  <2>3. NothingEarly' /\ ReportedOnce'
      BY <2>1, Zenon DEF NothingEarly, ReportedOnce
  <2>4. LastCounters'
      BY <2>1, NoCountsType, Zenon DEF LastCounters
  <2> QED
      BY <2>2, <2>3, <2>4, Zenon
<1>3. ASSUME NEW b \in Buckets, Alloc(b) PROVE ProfilerInv'
  <2>1. /\ proc # None /\ allocs' = [allocs EXCEPT ![proc][b] = @ + 1]
        /\ UNCHANGED <<last, proc, infos, torn, reported, target, col>>
      BY <1>3, Zenon DEF Alloc, results
  <2>2. proc \in Procs
      BY <2>1, ProfilingAssumption DEF ProfilerTypes, ProcessTypes, Procs, None
  <2>3. allocs' \in [Procs -> Counts]
      BY <2>1, <2>2 DEF ProfilerTypes, ProcessTypes, Counts
  <2>4. \A p \in Procs : \A x \in Buckets : allocs[p][x] \in Nat /\ allocs'[p][x] >= allocs[p][x]
      BY <2>1, <2>2 DEF ProfilerTypes, ProcessTypes, Counts
  <2>5. ProfilerTypes' /\ NothingEarly'
      BY <2>1, <2>3 DEF ProfilerTypes, ProcessTypes, TargetType, CollectorType, NothingEarly
  <2>6. \A p \in Procs : \A x \in Buckets : \A n \in Nat : n <= allocs[p][x] => n <= allocs'[p][x]
      BY <2>3, <2>4 DEF Counts
  <2>7. \A p \in Procs : \A x \in Buckets : reported[p][x] \in Nat
      BY DEF ProfilerTypes, ProcessTypes, Counts
  <2>8. ReportedOnce'
      BY <2>1, <2>6, <2>7, Zenon DEF ReportedOnce
  <2>9. \A p \in Procs : \A prev \in Counts : GoesOn(p, prev) => GoesOn(p, prev)'
      BY <2>1, <2>6 DEF GoesOn, Counts
  <2>10. target.prev \in Counts /\ col.prev \in Counts
      BY DEF ProfilerTypes, TargetType, CollectorType
  <2>11. LastCounters'
      BY <2>1, <2>9, <2>10, Zenon DEF LastCounters
  <2> QED
      BY <2>5, <2>8, <2>11, Zenon
<1> QED
    BY <1>1, <1>2, <1>3, Zenon

\* The announcement of a process, and the steps of the collector up to the copy of the last
\* counters, which is a copy of those of the target.
LEMMA TargetKeeps ==
  ASSUME ProfilerInv,
         \/ AddTarget \/ CleanUp \/ FindTarget \/ NoTargetFound
         \/ ListJvms \/ Deploy \/ StoreOutcome \/ CollectJvm \/ ListGo
  PROVE  ProfilerInv'
<1> USE DEF ProfilerInv
<1>1. CASE AddTarget
  <2>1. infos' = None /\ UNCHANGED <<last, proc, allocs, torn, reported, col>>
      BY <1>1, Zenon DEF AddTarget, traced, results
  <2>2. target' = [NoTarget EXCEPT !.proc = infos] \/ target' = target
      BY <1>1, Zenon DEF AddTarget
  <2>3. ProfilerTypes'
    <3>1. ProcessTypes' /\ CollectorType'
        BY <2>1 DEF ProfilerTypes, ProcessTypes, CollectorType
    <3>2. TargetType'
      <4>1. CASE target' = target
          BY <4>1, Zenon DEF ProfilerTypes, TargetType
      <4>2. CASE target' = [NoTarget EXCEPT !.proc = infos]
        <5>1. infos \in Procs \union {None}
            BY DEF ProfilerTypes, ProcessTypes
        <5> QED
            BY <4>2, <5>1, NoCountsType, Zenon DEF TargetType, NoTarget
      <4> QED
          BY <2>2, <4>1, <4>2, Zenon
    <3> QED
        BY <3>1, <3>2 DEF ProfilerTypes
  <2>4. target'.hasPrev => target' = target
      BY <2>2 DEF NoTarget
  <2> QED
      BY <2>1, <2>3, <2>4, SameCounters, Zenon
<1>2. CASE CleanUp
  <2>1. target' = NoTarget /\ UNCHANGED <<last, proc, infos, allocs, torn, reported, col>>
      BY <1>2, Zenon DEF CleanUp, results
  <2>2. ProfilerTypes'
      BY <2>1, NoCountsType DEF ProfilerTypes, ProcessTypes, TargetType, CollectorType, NoTarget
  <2>3. ~target'.hasPrev
      BY <2>1 DEF NoTarget
  <2> QED
      BY <2>1, <2>2, <2>3, SameCounters, Zenon
<1>3. CASE FindTarget
  <2>1. col' = At("jvm") /\ col.pc = "idle" /\ UNCHANGED <<last, proc, infos, allocs, torn, reported>>
      BY <1>3, Zenon DEF FindTarget, traced, results
  <2>2. \/ target' = target
        \/ target' = [target EXCEPT !.initialized = TRUE,
                                    !.isJvm = proc # None /\ kind[proc] \in {"jvm", "taken"},
                                    !.isGo = proc # None /\ kind[proc] = "go"]
      BY <1>3, Zenon DEF FindTarget
  <2>3. target'.hasPrev = target.hasPrev /\ target'.prev = target.prev /\ TargetType'
      BY <2>2, Zenon DEF ProfilerTypes, TargetType
  <2>4. ProcessTypes' /\ CollectorType' /\ col'.pc = "jvm"
      BY <2>1, NoCountsType DEF ProfilerTypes, ProcessTypes, CollectorType, At
  <2>5. NothingEarly' /\ ReportedOnce' /\ LastCounters'
      BY <2>1, <2>3, <2>4, SameCounters
  <2> QED
      BY <2>3, <2>4, <2>5, Zenon DEF ProfilerTypes
<1>4. CASE NoTargetFound \/ ListJvms \/ Deploy \/ CollectJvm
  <2>1. /\ col'.pc \notin {"read", "store"} /\ col.pc # "store" /\ CollectorType'
        /\ UNCHANGED <<last, proc, infos, allocs, torn, reported, target>>
    <3>1. CASE NoTargetFound
        BY <3>1, NoCountsType DEF NoTargetFound, At, CollectorType, traced, results
    <3>2. CASE ListJvms
        BY <3>2, NoCountsType, Zenon DEF ListJvms, At, ProfilerTypes, TargetType, CollectorType, traced, results
    <3>3. CASE Deploy
      <4>1. col.pc = "deploy" /\ UNCHANGED <<last, proc, infos, allocs, torn, reported, target>>
          BY <3>3, Zenon DEF Deploy, traced, results
      <4>2. col' \in {[col EXCEPT !.pc = "started"], [col EXCEPT !.pc = "failed"], At("go")}
          BY <3>3, Zenon DEF Deploy
      <4>3. CollectorType' /\ col'.pc \notin {"read", "store"}
        <5>1. CASE col' = At("go")
            BY <5>1, NoCountsType DEF At, CollectorType
        <5>2. CASE col' = [col EXCEPT !.pc = "started"]
            BY <5>2 DEF ProfilerTypes, CollectorType
        <5>3. CASE col' = [col EXCEPT !.pc = "failed"]
            BY <5>3 DEF ProfilerTypes, CollectorType
        <5> QED
            BY <4>2, <5>1, <5>2, <5>3, Zenon
      <4> QED
          BY <4>1, <4>3
    <3>4. CASE CollectJvm
      <4>1. col' = At("go") /\ col.pc = "collect" /\ UNCHANGED <<last, proc, infos, allocs, torn, reported, target>>
          BY <3>4, Zenon DEF CollectJvm, CollectAsyncProfiler, traced, results
      <4> QED
          BY <4>1, NoCountsType DEF At, CollectorType
    <3> QED
        BY <1>4, <3>1, <3>2, <3>3, <3>4, Zenon
  <2>2. ProcessTypes' /\ TargetType'
      BY <2>1 DEF ProfilerTypes, ProcessTypes, TargetType
  <2>3. NothingEarly' /\ ReportedOnce' /\ LastCounters'
      BY <2>1, SameCounters
  <2> QED
      BY <2>1, <2>2, <2>3, Zenon DEF ProfilerTypes
<1>5. CASE StoreOutcome
  <2>1. col' = At("go") /\ col.pc # "store" /\ UNCHANGED <<last, proc, infos, allocs, torn, reported>>
      BY <1>5 DEF StoreOutcome, traced, results
  <2>2. target' \in {target, [target EXCEPT !.started = TRUE], [target EXCEPT !.err = TRUE]}
      BY <1>5, Zenon DEF StoreOutcome
  <2>3. target'.hasPrev = target.hasPrev /\ target'.prev = target.prev /\ TargetType'
      BY <2>2, Zenon DEF ProfilerTypes, TargetType
  <2>4. ProcessTypes' /\ CollectorType' /\ col'.pc = "go"
      BY <2>1, NoCountsType DEF ProfilerTypes, ProcessTypes, CollectorType, At
  <2>5. NothingEarly' /\ ReportedOnce' /\ LastCounters'
      BY <2>1, <2>3, <2>4, SameCounters
  <2> QED
      BY <2>3, <2>4, <2>5, Zenon DEF ProfilerTypes
<1>6. CASE ListGo
  <2>1. col.pc = "go" /\ UNCHANGED <<last, proc, infos, allocs, torn, reported, target>>
      BY <1>6, Zenon DEF ListGo, traced, results
  <2>2. \/ col' = [pc |-> "read", proc |-> target.proc, hasPrev |-> target.hasPrev, prev |-> target.prev]
        \/ col' = At("idle")
      BY <1>6, Zenon DEF ListGo
  <2>3. CollectorType' /\ col'.pc # "store"
    <3>1. target.proc \in Procs \union {None} /\ target.hasPrev \in BOOLEAN /\ target.prev \in Counts
        BY DEF ProfilerTypes, TargetType
    <3>2. CASE col' = At("idle")
        BY <3>2, NoCountsType DEF CollectorType, At
    <3>3. CASE col' = [pc |-> "read", proc |-> target.proc, hasPrev |-> target.hasPrev, prev |-> target.prev]
        BY <3>1, <3>3 DEF CollectorType
    <3> QED
        BY <2>2, <3>2, <3>3, Zenon
  <2>4. col'.pc = "read" /\ col'.hasPrev => target.hasPrev /\ col'.prev = target.prev
      BY <2>2 DEF At
  <2>5. ProcessTypes' /\ TargetType'
      BY <2>1 DEF ProfilerTypes, ProcessTypes, TargetType
  <2>6. NothingEarly' /\ ReportedOnce' /\ LastCounters'
      BY <2>1, <2>3, <2>4, SameCounters
  <2> QED
      BY <2>3, <2>5, <2>6, Zenon DEF ProfilerTypes
<1> QED
    BY <1>1, <1>2, <1>3, <1>4, <1>5, <1>6, Zenon

\* What is reported of a counter: with the last counters between what was reported and the
\* counter the two add up to the counter; with none reported, to no more than it.
LEMMA DeltaFacts ==
  ASSUME NEW cur \in Counts, NEW prev \in Counts, NEW told \in Counts, NEW b \in Buckets,
         told[b] <= cur[b]
  PROVE  /\ Delta(cur, prev)[b] \in Nat /\ Delta(cur, prev)[b] <= cur[b]
         /\ told[b] <= prev[b] /\ prev[b] <= cur[b] => told[b] + Delta(cur, prev)[b] <= cur[b]
<1>1. cur[b] \in Nat /\ prev[b] \in Nat /\ told[b] \in Nat
    BY DEF Counts
<1>2. Delta(cur, prev)[b] = IF cur[b] < prev[b] THEN cur[b] ELSE cur[b] - prev[b]
    BY Zenon DEF Delta
<1> QED
    BY <1>1, <1>2

\* Counts are added site by site.
LEMMA PlusFacts ==
  ASSUME NEW c \in Counts, NEW d \in Counts
  PROVE  Plus(c, d) \in Counts /\ \A b \in Buckets : Plus(c, d)[b] = c[b] + d[b]
BY DEF Plus, Counts

\* A read of the counters reports no allocation again: what it read are the counters of the
\* process, or its history ends.
LEMMA ReadKeeps ==
  ASSUME ProfilerInv, ReadBuckets
  PROVE  ProfilerInv'
<1> USE DEF ProfilerInv
<1>1. col.pc = "read" /\ UNCHANGED <<last, proc, infos, allocs, target>>
    BY Zenon DEF ReadBuckets, traced
<1>2. TargetType'
    BY <1>1 DEF ProfilerTypes, TargetType
<1>3. CASE col' = At("idle") /\ UNCHANGED results
  <2>1. CollectorType' /\ col'.pc = "idle" /\ UNCHANGED <<reported, torn>>
      BY <1>3, NoCountsType DEF CollectorType, At, results
  <2>2. ProcessTypes'
      BY <1>1, <2>1 DEF ProfilerTypes, ProcessTypes
  <2>3. NothingEarly' /\ ReportedOnce' /\ LastCounters'
      BY <1>1, <2>1, SameCounters
  <2> QED
      BY <1>2, <2>1, <2>2, <2>3, Zenon DEF ProfilerTypes
<1>4. ASSUME proc # None, NEW n \in 0..Cardinality(Buckets), NEW cur, NEW new,
             cur = [b \in Buckets |-> IF b <= n THEN allocs[proc][b] ELSE 0],
             new = IF col.hasPrev THEN Delta(cur, col.prev) ELSE NoCounts,
             torn' = torn \union {p \in {proc} : cur # allocs[p]},
             reported' = [reported EXCEPT ![proc] = IF proc \in torn' THEN NoCounts ELSE Plus(@, new)],
             col' = IF cur = NoCounts THEN At("idle") ELSE [col EXCEPT !.pc = "store", !.prev = cur]
      PROVE  ProfilerInv'
  <2>1. proc \in Procs /\ proc = last
      BY <1>4, ProfilingAssumption DEF ProfilerTypes, ProcessTypes, Procs, None
  <2>2. allocs[proc] \in Counts /\ reported[proc] \in Counts /\ col.prev \in Counts
      BY <2>1 DEF ProfilerTypes, ProcessTypes, CollectorType
  <2>3. cur \in Counts
      BY <1>4, <2>2 DEF Counts
  <2>4. \A b \in Buckets : Delta(cur, col.prev)[b] \in Nat
      BY <2>2, <2>3 DEF Delta, Counts
  <2>5. Delta(cur, col.prev) \in Counts
      BY <2>4 DEF Delta, Counts
  <2>6. new \in Counts
      BY <1>4, <2>5, NoCountsType
  <2>7. Plus(reported[proc], new) \in Counts
      BY <2>2, <2>6, PlusFacts, Zenon
  <2>8. /\ reported' \in [Procs -> Counts]
        /\ reported'[proc] = IF proc \in torn' THEN NoCounts ELSE Plus(reported[proc], new)
        /\ \A p \in Procs : p # proc => reported'[p] = reported[p]
      BY <1>4, <2>1, <2>7, NoCountsType DEF ProfilerTypes, ProcessTypes
  <2>9. torn' \subseteq Procs /\ torn \subseteq torn'
      BY <1>4, <2>1 DEF ProfilerTypes, ProcessTypes
  <2>10. ProcessTypes'
      BY <1>1, <2>8, <2>9 DEF ProfilerTypes, ProcessTypes
  <2>11. CollectorType'
      BY <1>4, <2>3, NoCountsType, Zenon DEF ProfilerTypes, CollectorType, At
  <2>12. NothingEarly'
    <3>1. \A p \in Procs : p > last => p # proc
        BY <2>1, ProfilingAssumption DEF Procs
    <3> QED
        BY <1>1, <2>8, <3>1, Zenon DEF NothingEarly
  <2>13. proc \notin torn' => proc \notin torn /\ cur = allocs[proc]
      BY <1>4, Zenon
  <2>14. ASSUME proc \notin torn', NEW b \in Buckets
         PROVE  reported'[proc][b] <= cur[b]
    <3>1. reported'[proc][b] = reported[proc][b] + new[b]
      <4>1. reported'[proc] = Plus(reported[proc], new)
          BY <2>8, <2>14, Zenon
      <4>2. Plus(reported[proc], new)[b] = reported[proc][b] + new[b]
          BY <2>2, <2>6, <2>14, PlusFacts
      <4> QED
          BY <4>1, <4>2
    <3>2. reported[proc][b] <= cur[b]
        BY <2>1, <2>13, <2>14, Zenon DEF ReportedOnce
    <3>3. reported[proc][b] \in Nat /\ cur[b] \in Nat /\ NoCounts[b] = 0
        BY <2>2, <2>3 DEF Counts, NoCounts
    <3>4. CASE ~col.hasPrev
        BY <1>4, <3>1, <3>2, <3>3, <3>4
    <3>5. CASE col.hasPrev /\ reported[proc] = NoCounts
      <4>1. new[b] \in Nat /\ new[b] <= cur[b]
          BY <1>4, <2>2, <2>3, <3>2, <3>5, DeltaFacts, Zenon
      <4> QED
          BY <3>1, <3>3, <3>5, <4>1
    <3>6. CASE col.hasPrev /\ reported[proc] # NoCounts
      <4>1. GoesOn(proc, col.prev)
          BY <1>1, <2>1, <2>13, <2>14, <3>6, Zenon DEF LastCounters
      <4>2. reported[proc][b] <= col.prev[b] /\ col.prev[b] <= cur[b]
          BY <2>13, <2>14, <4>1, Zenon DEF GoesOn
      <4>3. reported[proc][b] + Delta(cur, col.prev)[b] <= cur[b]
          BY <2>2, <2>3, <3>2, <4>2, DeltaFacts, Zenon
      <4> QED
          BY <1>4, <3>1, <3>6, <4>3, Zenon
    <3> QED
        BY <3>4, <3>5, <3>6, Zenon
  <2>15. ReportedOnce'
      BY <1>1, <2>8, <2>9, <2>13, <2>14, Zenon DEF ReportedOnce
  <2>16. LastCounters'
    <3> SUFFICES ASSUME proc \notin torn' PROVE LastCounters'
        BY <1>1, Zenon DEF LastCounters
    <3>1. CASE cur = NoCounts
      <4>1. \A b \in Buckets : reported'[proc][b] = 0
          BY <2>1, <2>8, <2>14, <3>1 DEF NoCounts, Counts
      <4>2. reported'[proc] = NoCounts
          BY <2>1, <2>8, <4>1 DEF NoCounts, Counts
      <4> QED
          BY <1>1, <4>2, Zenon DEF LastCounters
    <3>2. CASE cur # NoCounts
      <4>1. col'.pc = "store" /\ col'.prev = cur
          BY <1>4, <3>2 DEF ProfilerTypes, CollectorType
      <4>2. \A b \in Buckets : cur[b] <= cur[b]
          BY <2>3 DEF Counts
      <4>3. GoesOn(proc, col.prev)'
          BY <1>1, <2>13, <2>14, <4>1, <4>2, Zenon DEF GoesOn
      <4> QED
          BY <4>1, <4>3 DEF LastCounters
    <3> QED
        BY <3>1, <3>2
  <2> QED
      BY <1>2, <2>10, <2>11, <2>12, <2>15, <2>16, Zenon DEF ProfilerTypes
<1>5. CASE proc # None /\ ~(col' = At("idle") /\ UNCHANGED results)
  <2> DEFINE cur(n) == [b \in Buckets |-> IF b <= n THEN allocs[proc][b] ELSE 0]
             new(n) == IF col.hasPrev THEN Delta(cur(n), col.prev) ELSE NoCounts
  <2>1. PICK n \in 0..Cardinality(Buckets) :
          /\ torn' = torn \union {p \in {proc} : cur(n) # allocs[p]}
          /\ reported' = [reported EXCEPT ![proc] = IF proc \in torn' THEN NoCounts ELSE Plus(@, new(n))]
          /\ col' = IF cur(n) = NoCounts THEN At("idle") ELSE [col EXCEPT !.pc = "store", !.prev = cur(n)]
      BY <1>5, Zenon DEF ReadBuckets
  <2> QED
      BY <1>4, <1>5, <2>1, Zenon
<1> QED
    BY <1>3, <1>5, Zenon DEF ReadBuckets

\* What was read becomes the last counters of whatever target the pid has.
LEMMA StoreKeeps ==
  ASSUME ProfilerInv, StorePrev
  PROVE  ProfilerInv'
<1> USE DEF ProfilerInv
<1>1. /\ col.pc = "store" /\ col' = At("idle")
      /\ UNCHANGED <<last, proc, infos, allocs, torn, reported>>
    BY Zenon DEF StorePrev, traced, results
<1>2. /\ target.proc = None => target' = target
      /\ target.proc # None => target' = [target EXCEPT !.hasPrev = TRUE, !.prev = col.prev]
    BY Zenon DEF StorePrev
<1>3. CollectorType' /\ col'.pc = "idle"
    BY <1>1, NoCountsType DEF CollectorType, At
<1>4. ProcessTypes'
    BY <1>1 DEF ProfilerTypes, ProcessTypes
<1>5. TargetType' /\ (target'.hasPrev => target'.prev = col.prev)
  <2>1. col.prev \in Counts
      BY DEF ProfilerTypes, CollectorType
  <2> QED
      BY <1>2, <2>1, Zenon DEF ProfilerTypes, TargetType
<1>6. NothingEarly' /\ ReportedOnce'
    BY <1>1, Zenon DEF NothingEarly, ReportedOnce
<1>7. GoesOn(proc, col.prev) /\ target'.hasPrev => GoesOn(proc, target.prev)'
    BY <1>1, <1>5, Zenon DEF GoesOn
<1>8. LastCounters'
    BY <1>1, <1>3, <1>7 DEF LastCounters
<1> QED
    BY <1>3, <1>4, <1>5, <1>6, <1>8, Zenon DEF ProfilerTypes

\* No allocation of a process is reported twice (buildProfiles), for any number of processes that
\* have the pid one after the other and any number of allocation sites, whichever of them the
\* counters are copied from, read in and stored for.
THEOREM AllocationsReportedOnce == ProfilerSpec => []ReportedOnce
<1>1. ProfilerInv /\ [ProfilerNext]_profilerVars => ProfilerInv'
  <2> SUFFICES ASSUME ProfilerInv, [ProfilerNext]_profilerVars PROVE ProfilerInv'
      OBVIOUS
  <2>1. CASE ProfilerNext
      BY <2>1, ProcessKeeps, TargetKeeps, ReadKeeps, StoreKeeps, Zenon DEF ProfilerNext, Collect
  <2>2. CASE UNCHANGED profilerVars
    <3>1. UNCHANGED <<last, proc, infos, allocs, torn, reported, target, col>>
        BY <2>2, Zenon DEF profilerVars, traced, results
    <3>2. ProfilerTypes'
        BY <3>1 DEF ProfilerInv, ProfilerTypes, ProcessTypes, TargetType, CollectorType
    <3>3. NothingEarly' /\ ReportedOnce' /\ LastCounters'
        BY <3>1, SameCounters
    <3> QED
        BY <3>2, <3>3, Zenon DEF ProfilerInv
  <2> QED
      BY <2>1, <2>2, Zenon
<1>2. ProfilerInv => ReportedOnce
    BY Zenon DEF ProfilerInv
<1> QED
    BY <1>1, <1>2, ProfilerStart, PTL DEF ProfilerSpec
=============================================================================
