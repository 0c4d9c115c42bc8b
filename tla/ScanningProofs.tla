--------------------------- MODULE ScanningProofs ---------------------------
(***************************************************************************)
(* The lines of a session file, for every length of a line and of the      *)
(* file, every budget and any number of refusals and restarts: the parser  *)
(* got exactly those up to the cursor.  What holds between two bytes of a  *)
(* read (InRead) is the heart of it: where the line began that the read is *)
(* in, that no newline was passed since, and how long the line is so far.  *)
(* And the queues of the collector: whatever the budgets and refusals, the *)
(* counters of the registrations are right and no file is forgotten.  And  *)
(* the fetches of the remote limits, whose outcomes are not lost.          *)
(***************************************************************************)
EXTENDS MCScanning, FoldLemmas, SequenceTheorems

\* The running read is within the file, and behind a complete line.
Position ==
    /\ offset <= committed /\ committed <= pos /\ pos <= told /\ told <= Len(bytes)
    /\ committed = 0 \/ bytes[committed] = "n"
    /\ ~Reader!Breaks(committed, pos)

\* The read knows the length of its line, or that it is too long.
Measured ==
    IF oversize THEN committed + MaxLine < pos ELSE line = pos - committed

\* It found the lines that are parsed, up to where its own line begins.
FoundExactly == found = {b \in offset+1..committed : Reader!Parsable(b)}

InRead == step = "read" => Position /\ Measured /\ FoundExactly

ReaderInv == TakenExactly /\ InRead

-----------------------------------------------------------------------------
(***************************************************************************)
(* Lines.                                                                  *)
(***************************************************************************)

\* The line that ends at b + 1 began at a, the last newline before it.
LEMMA LineBegins ==
  ASSUME NEW a \in Nat, NEW b \in Nat, a <= b,
         a = 0 \/ bytes[a] = "n", bytes[b + 1] = "n", ~Reader!Breaks(a, b),
         NEW c \in Nat
  PROVE  Reader!IsLine(c, b + 1) <=> c = a
<1>1. (b + 1) - 1 = b
  OBVIOUS
<1>2. Reader!IsLine(a, b + 1)
  BY <1>1 DEF Reader!IsLine
<1>3. ASSUME Reader!IsLine(c, b + 1) PROVE c = a
  <2>1. c < b + 1 /\ (c = 0 \/ bytes[c] = "n") /\ ~Reader!Breaks(c, b)
    BY <1>1, <1>3 DEF Reader!IsLine
  <2>2. ~(c < a)
    BY <2>1 DEF Reader!Breaks
  <2>3. ~(a < c)
    BY <2>1 DEF Reader!Breaks
  <2> QED
    BY <2>2, <2>3
<1> QED
  BY <1>2, <1>3

\* So the parser should get it if its length is in the bounds.
LEMMA LineParsable ==
  ASSUME NEW a \in Nat, NEW b \in Nat, a <= b,
         a = 0 \/ bytes[a] = "n", bytes[b + 1] = "n", ~Reader!Breaks(a, b)
  PROVE  Reader!Parsable(b + 1) <=>
             b - a \in 1..MaxLine /\ ~(b - a = 1 /\ bytes[b] = "r")
<1>1. (b + 1) - 1 = b /\ (b + 1) - 1 - a = b - a /\ a \in 0..((b + 1) - 1)
  OBVIOUS
<1>2. \A c \in 0..((b + 1) - 1) : Reader!IsLine(c, b + 1) <=> c = a
  BY LineBegins
<1> QED
  BY <1>1, <1>2 DEF Reader!Parsable

\* A line ends with its newline.
LEMMA ParsableEnds == ASSUME NEW b \in Nat, Reader!Parsable(b) PROVE bytes[b] = "n"
BY DEF Reader!Parsable, Reader!IsLine

\* Bytes that are appended change nothing before them.
LEMMA ParsableStays ==
  ASSUME bytes \in Seq(Reader!Bytes), NEW x \in Reader!Bytes,
         bytes' = Append(bytes, x), NEW b \in 1..Len(bytes)
  PROVE  Reader!Parsable(b)' <=> Reader!Parsable(b)
<1>1. \A i \in 1..b : bytes'[i] = bytes[i]
  OBVIOUS
<1>2. ASSUME NEW a \in 0..b-1
      PROVE  Reader!IsLine(a, b)' <=> Reader!IsLine(a, b)
  BY <1>1 DEF Reader!IsLine, Reader!Breaks
<1>4. ASSUME NEW a \in 0..b-1, b - 1 - a = 1
      PROVE  bytes'[b - 1] = bytes[b - 1]
  <2>1. b - 1 \in 1..b
    BY <1>4
  <2> QED
    BY <2>1, <1>1
<1> QED
  BY <1>2, <1>4 DEF Reader!Parsable

-----------------------------------------------------------------------------
(***************************************************************************)
(* The invariant.                                                          *)
(***************************************************************************)
LEMMA ReaderInitially == Reader!Init => ReaderInv
<1> SUFFICES ASSUME Reader!Init PROVE ReaderInv
  OBVIOUS
<1>1. Reader!TypeOK
  <2>1. bytes \in Seq(Reader!Bytes)
    BY DEF Reader!Init
  <2>2. /\ offset \in Nat /\ discard \in Nat \cup {None} /\ taken \subseteq Nat
        /\ step \in {"idle", "read"}
        /\ start \in Nat /\ told \in Nat /\ pos \in Nat /\ committed \in Nat
        /\ found \subseteq Nat /\ refusedReads \in Nat /\ starts \in Nat
    BY DEF Reader!Init
  <2>3. line \in 0..MaxLine /\ failures \in 0..MaxFailures
    BY ReaderAssumption DEF Reader!Init
  <2>4. oversize \in BOOLEAN /\ resting \in BOOLEAN /\ refused \in BOOLEAN
    BY DEF Reader!Init
  <2> QED
    BY <2>1, <2>2, <2>3, <2>4 DEF Reader!TypeOK
<1>2. Reader!TakenExactly
  BY DEF Reader!Init, Reader!TakenExactly
<1>3. Reader!CursorAtLine
  BY DEF Reader!Init, Reader!CursorAtLine
<1> QED
  BY <1>1, <1>2, <1>3 DEF Reader!Init, ReaderInv, TakenExactly, InRead

\* What is said of the cursor and of the read depends on these only.
LEMMA ReaderRests ==
  ReaderInv /\ UNCHANGED <<bytes, offset, discard, taken>>
            /\ (step' = "read" =>
                  step = "read" /\ UNCHANGED <<told, pos, committed, line, oversize, found>>)
            /\ Reader!TypeOK'
      => ReaderInv'
<1> SUFFICES ASSUME ReaderInv, UNCHANGED <<bytes, offset, discard, taken>>,
                    step' = "read" => step = "read" /\
                       UNCHANGED <<told, pos, committed, line, oversize, found>>,
                    Reader!TypeOK'
             PROVE  ReaderInv'
  OBVIOUS
<1>2. Reader!TakenExactly'
  BY DEF ReaderInv, TakenExactly, Reader!TakenExactly, Reader!Parsable,
              Reader!IsLine, Reader!Breaks
<1>3. Reader!CursorAtLine'
  BY DEF ReaderInv, TakenExactly, Reader!CursorAtLine, Reader!Breaks
<1>4. InRead'
  <2> SUFFICES ASSUME step' = "read" PROVE (Position /\ Measured /\ FoundExactly)'
    BY DEF InRead
  <2>1. Position /\ Measured /\ FoundExactly
    BY DEF ReaderInv, InRead
  <2>2. Position'
    BY <2>1 DEF Position, Reader!Breaks
  <2>3. Measured'
    BY <2>1 DEF Measured
  <2>4. FoundExactly'
    BY <2>1 DEF FoundExactly, Reader!Parsable, Reader!IsLine, Reader!Breaks
  <2> QED
    BY <2>2, <2>3, <2>4
<1> QED
  BY <1>2, <1>3, <1>4 DEF ReaderInv, TakenExactly

-----------------------------------------------------------------------------
\* Another program writes: the read is told of a part of the file only.
LEMMA WriteKeeps == ReaderInv /\ Reader!Write => ReaderInv'
<1> SUFFICES ASSUME ReaderInv, Reader!Write PROVE ReaderInv'
  OBVIOUS
<1>1. PICK x \in Reader!Bytes : bytes' = Append(bytes, x)
  BY DEF Reader!Write
<1>u. UNCHANGED <<offset, discard, taken, step, start, told, pos, committed, line,
                  oversize, found, failures, resting, refused, refusedReads, starts>>
  BY DEF Reader!Write, Reader!cursor, Reader!read, Reader!path
<1>i. Reader!TypeOK /\ Reader!TakenExactly /\ Reader!CursorAtLine /\ InRead
  BY DEF ReaderInv, TakenExactly
<1>t. /\ bytes \in Seq(Reader!Bytes) /\ offset \in Nat /\ pos \in Nat /\ committed \in Nat
      /\ told \in Nat /\ discard \in Nat \cup {None}
  BY <1>i DEF Reader!TypeOK
<1>2. /\ bytes' \in Seq(Reader!Bytes) /\ Len(bytes') = Len(bytes) + 1 /\ Len(bytes) \in Nat
      /\ \A i \in 1..Len(bytes) : bytes'[i] = bytes[i]
  BY <1>1, <1>t
<1>3. \A b \in 1..Len(bytes) : Reader!Parsable(b)' <=> Reader!Parsable(b)
  BY <1>1, <1>t, ParsableStays
<1>5. Reader!TypeOK'
  BY <1>2, <1>u, <1>i DEF Reader!TypeOK
<1>6. Reader!TakenExactly'
  <2>1. offset <= Len(bytes)
    BY <1>i DEF Reader!CursorAtLine
  <2>2. taken' = {b \in 1..offset : Reader!Parsable(b)}
    BY <1>i, <1>u DEF Reader!TakenExactly
  <2>3. {b \in 1..offset : Reader!Parsable(b)} = {b \in 1..offset : Reader!Parsable(b)'}
    BY <2>1, <1>2, <1>3, <1>t
  <2> QED
    BY <2>2, <2>3, <1>u DEF Reader!TakenExactly
<1>7. Reader!CursorAtLine'
  <2>1. offset <= Len(bytes) /\ (offset = 0 \/ bytes[offset] = "n")
    BY <1>i DEF Reader!CursorAtLine
  <2>2. offset' <= Len(bytes') /\ (offset' = 0 \/ bytes'[offset'] = "n")
    BY <2>1, <1>2, <1>u, <1>t
  <2>3. ASSUME discard # None
        PROVE  offset + MaxLine < discard /\ discard <= Len(bytes')
                 /\ ~Reader!Breaks(offset, discard)'
    <3>1. /\ offset + MaxLine < discard /\ discard <= Len(bytes)
          /\ ~Reader!Breaks(offset, discard)
      BY <2>3, <1>i DEF Reader!CursorAtLine
    <3>2. discard \in Nat /\ discard <= Len(bytes')
      BY <2>3, <3>1, <1>2, <1>t
    <3>3. ~Reader!Breaks(offset, discard)'
      BY <3>1, <3>2, <1>2, <1>t, <1>u DEF Reader!Breaks
    <3> QED
      BY <3>1, <3>2, <3>3
  <2> QED
    BY <2>2, <2>3, <1>u DEF Reader!CursorAtLine
<1>8. InRead'
  <2> SUFFICES ASSUME step = "read" PROVE (Position /\ Measured /\ FoundExactly)'
    BY <1>u DEF InRead
  <2>1. Position /\ Measured /\ FoundExactly
    BY <1>i DEF InRead
  <2>2. /\ offset <= committed /\ committed <= pos /\ pos <= told /\ told <= Len(bytes)
        /\ (committed = 0 \/ bytes[committed] = "n") /\ ~Reader!Breaks(committed, pos)
    BY <2>1 DEF Position
  <2>3. (committed = 0 \/ bytes'[committed] = "n") /\ told <= Len(bytes')
    BY <2>2, <1>2, <1>t
  <2>4. ~Reader!Breaks(committed, pos)'
    BY <2>2, <1>2, <1>t, <1>u DEF Reader!Breaks
  <2>5. Position'
    BY <2>2, <2>3, <2>4, <1>u DEF Position, Reader!Breaks
  <2>6. Measured'
    BY <2>1, <1>u DEF Measured
  <2>7. {b \in offset+1..committed : Reader!Parsable(b)}
          = {b \in offset+1..committed : Reader!Parsable(b)'}
    BY <2>2, <1>2, <1>3, <1>t
  <2>8. FoundExactly'
    BY <2>1, <2>7, <1>u DEF FoundExactly
  <2> QED
    BY <2>5, <2>6, <2>8
<1> QED
  BY <1>5, <1>6, <1>7, <1>8 DEF ReaderInv, TakenExactly

\* Waiting, refusals and looks at the file leave cursor and read alone.
LEMMA WaitKeeps ==
  ReaderInv /\ (Reader!Rested \/ Reader!Refuse \/ Reader!AtEnd \/ Reader!NothingNew)
    => ReaderInv'
<1> SUFFICES ASSUME ReaderInv,
                    Reader!Rested \/ Reader!Refuse \/ Reader!AtEnd \/ Reader!NothingNew
             PROVE  ReaderInv'
  OBVIOUS
<1>1. UNCHANGED <<bytes, offset, discard, taken, step, start, told, pos, committed, line,
                  oversize, found, starts>>
  BY DEF Reader!Rested, Reader!Refuse, Reader!AtEnd, Reader!NothingNew,
         Reader!cursor, Reader!read
<1>i. Reader!TypeOK
  BY DEF ReaderInv, TakenExactly
<1>2. failures' = failures \/ Reader!Failure
  BY DEF Reader!Rested, Reader!Refuse, Reader!AtEnd, Reader!NothingNew
<1>3. failures' \in 0..MaxFailures
  BY <1>2, <1>i, ReaderAssumption DEF Reader!TypeOK, Reader!Failure
<1>4. resting' \in BOOLEAN
  BY <1>i DEF Reader!Rested, Reader!Refuse, Reader!AtEnd, Reader!NothingNew,
              Reader!Failure, Reader!TypeOK
<1>5. refused' \in BOOLEAN
  BY <1>i DEF Reader!Rested, Reader!Refuse, Reader!AtEnd, Reader!NothingNew, Reader!TypeOK
<1>6. refusedReads' \in Nat
  BY <1>i DEF Reader!Rested, Reader!Refuse, Reader!AtEnd, Reader!NothingNew, Reader!TypeOK
<1>7. Reader!TypeOK'
  BY <1>1, <1>3, <1>4, <1>5, <1>6, <1>i DEF Reader!TypeOK
<1> QED
  BY <1>1, <1>7, ReaderRests

\* A restart forgets the read and the skipped part of a line.
LEMMA RestartKeeps == ReaderInv /\ Reader!Restart => ReaderInv'
<1> SUFFICES ASSUME ReaderInv, Reader!Restart PROVE ReaderInv'
  OBVIOUS
<1>1. /\ UNCHANGED <<bytes, offset, taken, start, told, pos, committed, line, oversize,
                     found, refusedReads>>
      /\ step' = "idle" /\ discard' = None
      /\ failures' = 0 /\ starts' = starts + 1
  BY DEF Reader!Restart, Reader!read
<1>2. resting' = FALSE
  BY DEF Reader!Restart
<1>3. refused' = FALSE
  BY DEF Reader!Restart
<1>i. Reader!TypeOK /\ Reader!TakenExactly /\ Reader!CursorAtLine
  BY DEF ReaderInv, TakenExactly
<1>4. failures' \in 0..MaxFailures /\ starts' \in Nat
  BY <1>1, <1>i, ReaderAssumption DEF Reader!TypeOK
<1>5. Reader!TypeOK'
  BY <1>1, <1>2, <1>3, <1>4, <1>i DEF Reader!TypeOK
<1>6. Reader!TakenExactly'
  BY <1>1, <1>i DEF Reader!TakenExactly, Reader!Parsable, Reader!IsLine, Reader!Breaks
<1>7. Reader!CursorAtLine'
  BY <1>1, <1>i DEF Reader!CursorAtLine
<1> QED
  BY <1>1, <1>5, <1>6, <1>7 DEF ReaderInv, TakenExactly, InRead

\* A read begins where the cursor is, or behind the skipped part of a line.
LEMMA OpenKeeps == ReaderInv /\ Reader!Open => ReaderInv'
<1> SUFFICES ASSUME ReaderInv, Reader!Open PROVE ReaderInv'
  OBVIOUS
<1>i. Reader!TypeOK /\ Reader!TakenExactly /\ Reader!CursorAtLine
  BY DEF ReaderInv, TakenExactly
<1>1. /\ UNCHANGED <<bytes, offset, discard, taken, refusedReads, starts>>
      /\ step' = "read" /\ start' = Reader!ReadStart /\ pos' = Reader!ReadStart
      /\ told' = Len(bytes) /\ Reader!ReadStart < Len(bytes)
      /\ committed' = offset /\ line' = 0 /\ found' = {} /\ failures' = 0
  BY DEF Reader!Open, Reader!cursor
<1>2. oversize' = (discard # None)
  BY DEF Reader!Open
<1>3. UNCHANGED resting
  BY DEF Reader!Open
<1>4. refused' = FALSE
  BY DEF Reader!Open
<1>t. /\ offset \in Nat /\ discard \in Nat \cup {None} /\ Len(bytes) \in Nat
      /\ bytes \in Seq(Reader!Bytes)
  BY <1>i DEF Reader!TypeOK
<1>5. Reader!ReadStart \in Nat /\ offset <= Reader!ReadStart
  BY <1>i, <1>t, ReaderAssumption DEF Reader!ReadStart, Reader!CursorAtLine
<1>6. line' \in 0..MaxLine /\ failures' \in 0..MaxFailures
  BY <1>1, ReaderAssumption
<1>7. Reader!TypeOK'
  <2>1. oversize' \in BOOLEAN
    BY <1>2
  <2>2. refused' \in BOOLEAN /\ resting' \in BOOLEAN
    BY <1>3, <1>4, <1>i DEF Reader!TypeOK
  <2>3. start' \in Nat /\ pos' \in Nat /\ told' \in Nat /\ committed' \in Nat /\ found' \subseteq Nat
    BY <1>1, <1>5, <1>t
  <2> QED
    BY <1>1, <2>1, <2>2, <2>3, <1>6, <1>i DEF Reader!TypeOK
<1>8. Reader!TakenExactly'
  BY <1>1, <1>i DEF Reader!TakenExactly, Reader!Parsable, Reader!IsLine, Reader!Breaks
<1>9. Reader!CursorAtLine'
  BY <1>1, <1>i DEF Reader!CursorAtLine, Reader!Breaks
<1>10. Position'
  <2>1. offset <= pos' /\ pos' <= told' /\ told' <= Len(bytes')
    BY <1>1, <1>5, <1>t
  <2>2. offset = 0 \/ bytes[offset] = "n"
    BY <1>i DEF Reader!CursorAtLine
  <2>3. ~Reader!Breaks(offset, Reader!ReadStart)
    BY <1>i, <1>t DEF Reader!ReadStart, Reader!CursorAtLine, Reader!Breaks
  <2>4. ~Reader!Breaks(committed, pos)'
    BY <2>3, <1>1 DEF Reader!Breaks
  <2> QED
    BY <2>1, <2>2, <2>4, <1>1, <1>t DEF Position
<1>11. Measured'
  <2>1. CASE discard = None
    <3>1. ~oversize' /\ line' = 0 /\ pos' = offset /\ committed' = offset
      BY <2>1, <1>1, <1>2 DEF Reader!ReadStart
    <3>2. line' = pos' - committed'
      BY <3>1, <1>t
    <3> QED
      BY <3>1, <3>2 DEF Measured
  <2>2. CASE discard # None
    <3>1. oversize' /\ pos' = discard /\ committed' = offset
      BY <2>2, <1>1, <1>2 DEF Reader!ReadStart
    <3>2. offset + MaxLine < discard
      BY <2>2, <1>i DEF Reader!CursorAtLine
    <3> QED
      BY <3>1, <3>2 DEF Measured
  <2> QED
    BY <2>1, <2>2
<1>12. FoundExactly'
  BY <1>1, <1>t DEF FoundExactly
<1> QED
  BY <1>7, <1>8, <1>9, <1>10, <1>11, <1>12 DEF ReaderInv, TakenExactly, InRead

-----------------------------------------------------------------------------
(***************************************************************************)
(* A byte of the read.  The cursor stays, so what was taken does.          *)
(***************************************************************************)
LEMMA CursorRests ==
  ReaderInv /\ UNCHANGED <<bytes, offset, discard, taken>>
    => Reader!TakenExactly' /\ Reader!CursorAtLine'
BY DEF ReaderInv, TakenExactly, Reader!TakenExactly, Reader!CursorAtLine,
       Reader!Parsable, Reader!IsLine, Reader!Breaks

\* What a read that still has bytes to read knows.
LEMMA AtByte ==
  ReaderInv /\ step = "read" =>
    /\ Reader!TypeOK /\ Position /\ Measured /\ FoundExactly
    /\ bytes \in Seq(Reader!Bytes) /\ Len(bytes) \in Nat
    /\ offset \in Nat /\ committed \in Nat /\ pos \in Nat /\ told \in Nat
    /\ line \in 0..MaxLine /\ MaxLine \in Nat
BY ReaderAssumption DEF ReaderInv, InRead, TakenExactly, Reader!TypeOK

\* A newline ends the line: the read found it if the parser should get it.
LEMMA NewlineKeeps == ReaderInv /\ Reader!Newline => ReaderInv'
<1> SUFFICES ASSUME ReaderInv, Reader!Newline PROVE ReaderInv'
  OBVIOUS
<1>1. /\ step = "read" /\ pos < told /\ bytes[pos + 1] = "n"
      /\ found' = IF Reader!Kept > 0 /\ ~oversize THEN found \cup {pos + 1} ELSE found
      /\ pos' = pos + 1 /\ committed' = pos + 1 /\ line' = 0
      /\ told' = IF pos + 1 - start >= TickLimit THEN pos + 1 ELSE told
      /\ UNCHANGED <<bytes, offset, discard, taken, step, start, failures, resting, refused,
                     refusedReads, starts>>
  BY DEF Reader!Newline, Reader!Reading, Reader!cursor, Reader!path
<1>2. oversize' = FALSE
  BY DEF Reader!Newline
<1>i. /\ Reader!TypeOK /\ Position /\ Measured /\ FoundExactly
      /\ bytes \in Seq(Reader!Bytes) /\ Len(bytes) \in Nat
      /\ offset \in Nat /\ committed \in Nat /\ pos \in Nat /\ told \in Nat
      /\ line \in 0..MaxLine /\ MaxLine \in Nat
  BY <1>1, AtByte
<1>p. /\ offset <= committed /\ committed <= pos /\ told <= Len(bytes)
      /\ (committed = 0 \/ bytes[committed] = "n") /\ ~Reader!Breaks(committed, pos)
  BY <1>i DEF Position
<1>3. told' \in Nat /\ pos' <= told' /\ told' <= Len(bytes')
  BY <1>1, <1>i, <1>p
<1>4. Reader!TypeOK'
  <2>1. line' \in 0..MaxLine
    BY <1>1, <1>i
  <2>3. oversize' \in BOOLEAN
    BY <1>2
  <2>2. found' \subseteq Nat /\ pos' \in Nat /\ committed' \in Nat
    BY <1>1, <1>i DEF Reader!TypeOK
  <2> QED
    BY <1>1, <1>3, <2>1, <2>2, <2>3, <1>i DEF Reader!TypeOK
<1>5. Position'
  BY <1>1, <1>3, <1>i, <1>p DEF Position, Reader!Breaks
<1>6. Measured'
  BY <1>1, <1>2, <1>i DEF Measured
<1>7. Reader!Parsable(pos + 1) <=> Reader!Kept > 0 /\ ~oversize
  <2>1. Reader!Parsable(pos + 1) <=>
          pos - committed \in 1..MaxLine /\ ~(pos - committed = 1 /\ bytes[pos] = "r")
    BY <1>1, <1>i, <1>p, LineParsable
  <2>2. CASE oversize
    BY <2>1, <2>2, <1>i DEF Measured
  <2>3. CASE ~oversize
    <3>1. line = pos - committed
      BY <2>3, <1>i DEF Measured
    <3>2. Reader!Kept > 0 <=> line > 0 /\ ~(line = 1 /\ bytes[pos] = "r")
      BY <1>i DEF Reader!Kept
    <3> QED
      BY <2>1, <2>3, <3>1, <3>2, <1>i
  <2> QED
    BY <2>2, <2>3
<1>8. FoundExactly'
  <2>1. \A b \in committed+1..pos : ~Reader!Parsable(b)
    <3> TAKE b \in committed+1..pos
    <3>1. bytes[b] # "n" /\ b \in Nat
      BY <1>i, <1>p DEF Reader!Breaks
    <3> QED
      BY <3>1, ParsableEnds
  <2>2. found = {b \in offset+1..committed : Reader!Parsable(b)}
    BY <1>i DEF FoundExactly
  <2>3. found' = {b \in offset+1..pos+1 : Reader!Parsable(b)}
    <3>1. CASE Reader!Parsable(pos + 1)
      BY <3>1, <1>1, <1>7, <2>1, <2>2, <1>i, <1>p
    <3>2. CASE ~Reader!Parsable(pos + 1)
      BY <3>2, <1>1, <1>7, <2>1, <2>2, <1>i, <1>p
    <3> QED
      BY <3>1, <3>2
  <2> QED
    BY <2>3, <1>1 DEF FoundExactly, Reader!Parsable, Reader!IsLine, Reader!Breaks
<1> QED
  BY <1>1, <1>4, <1>5, <1>6, <1>8, CursorRests DEF ReaderInv, TakenExactly, InRead

\* Any other byte makes the line longer, which becomes too long with the byte
\* after the longest that is parsed.
LEMMA ByteKeeps == ReaderInv /\ (Reader!Skip \/ Reader!Collect) => ReaderInv'
<1> SUFFICES ASSUME ReaderInv, Reader!Skip \/ Reader!Collect PROVE ReaderInv'
  OBVIOUS
<1>1. /\ step = "read" /\ pos < told /\ bytes[pos + 1] # "n" /\ pos' = pos + 1
      /\ told' \in {told, pos + 1}
      /\ UNCHANGED <<bytes, offset, discard, taken, step, start, committed, found,
                     failures, resting, refused, refusedReads, starts>>
  BY DEF Reader!Skip, Reader!Collect, Reader!Reading, Reader!cursor, Reader!path
<1>i. /\ Reader!TypeOK /\ Position /\ Measured /\ FoundExactly
      /\ bytes \in Seq(Reader!Bytes) /\ Len(bytes) \in Nat
      /\ offset \in Nat /\ committed \in Nat /\ pos \in Nat /\ told \in Nat
      /\ line \in 0..MaxLine /\ MaxLine \in Nat
  BY <1>1, AtByte
<1>p. /\ offset <= committed /\ committed <= pos /\ told <= Len(bytes)
      /\ (committed = 0 \/ bytes[committed] = "n") /\ ~Reader!Breaks(committed, pos)
  BY <1>i DEF Position
<1>2. told' \in Nat /\ pos' <= told' /\ told' <= Len(bytes') /\ pos' \in Nat
  BY <1>1, <1>i, <1>p
<1>5. line' \in 0..MaxLine /\ oversize' \in BOOLEAN /\ Measured'
  <2>1. CASE oversize
    <3>1. UNCHANGED line
      BY <2>1 DEF Reader!Skip, Reader!Collect
    <3>2. UNCHANGED oversize
      BY <2>1 DEF Reader!Skip, Reader!Collect
    <3>3. line' \in 0..MaxLine
      BY <3>1, <1>i
    <3>4. oversize' \in BOOLEAN
      BY <3>2, <1>i DEF Reader!TypeOK
    <3>5. Measured'
      <4>1. committed + MaxLine < pos
        BY <2>1, <1>i DEF Measured
      <4> QED
        BY <4>1, <3>2, <1>1, <2>1, <1>i DEF Measured
    <3> QED
      BY <3>3, <3>4, <3>5
  <2>2. CASE ~oversize
    <3>1. Reader!Collect
      BY <2>2 DEF Reader!Skip
    <3>2. line = pos - committed
      BY <2>2, <1>i DEF Measured
    <3>3. CASE line < MaxLine
      <4>1. line' = line + 1
        BY <3>1, <3>3 DEF Reader!Collect
      <4>2. UNCHANGED oversize
        BY <3>1, <3>3 DEF Reader!Collect
      <4>3. line' \in 0..MaxLine
        BY <4>1, <3>3, <1>i
      <4>4. oversize' \in BOOLEAN
        BY <4>2, <1>i DEF Reader!TypeOK
      <4>5. Measured'
        BY <4>1, <4>2, <3>2, <1>1, <2>2, <1>i DEF Measured
      <4> QED
        BY <4>3, <4>4, <4>5
    <3>4. CASE ~(line < MaxLine)
      <4>1. line' = 0
        BY <3>1, <3>4 DEF Reader!Collect
      <4>2. oversize' = TRUE
        BY <3>1, <3>4 DEF Reader!Collect
      <4>3. line' \in 0..MaxLine
        BY <4>1, <1>i
      <4>4. oversize' \in BOOLEAN
        BY <4>2
      <4>5. committed' + MaxLine < pos'
        BY <3>2, <3>4, <1>1, <1>i
      <4>6. Measured'
        BY <4>2, <4>5 DEF Measured
      <4> QED
        BY <4>3, <4>4, <4>6
    <3> QED
      BY <3>3, <3>4
  <2> QED
    BY <2>1, <2>2
<1>6. Reader!TypeOK'
  BY <1>1, <1>2, <1>5, <1>i DEF Reader!TypeOK
<1>7. Position'
  BY <1>1, <1>2, <1>i, <1>p DEF Position, Reader!Breaks
<1>8. FoundExactly'
  BY <1>1, <1>i DEF FoundExactly, Reader!Parsable, Reader!IsLine, Reader!Breaks
<1> QED
  BY <1>1, <1>5, <1>6, <1>7, <1>8, CursorRests DEF ReaderInv, TakenExactly, InRead

\* A read that is cut short ends where it is.
LEMMA CutShortKeeps == ReaderInv /\ Reader!CutShort => ReaderInv'
<1> SUFFICES ASSUME ReaderInv, Reader!CutShort PROVE ReaderInv'
  OBVIOUS
<1>1. /\ step = "read" /\ pos < told /\ told' = pos /\ refusedReads' = refusedReads + 1
      /\ UNCHANGED <<bytes, offset, discard, taken, step, start, pos, committed, line,
                     oversize, found, failures, resting, refused, starts>>
  BY DEF Reader!CutShort, Reader!Reading, Reader!cursor
<1>i. /\ Reader!TypeOK /\ Position /\ Measured /\ FoundExactly
      /\ Len(bytes) \in Nat /\ pos \in Nat /\ told \in Nat
  BY <1>1, AtByte
<1>2. Reader!TypeOK'
  BY <1>1, <1>i DEF Reader!TypeOK
<1>3. Position'
  BY <1>1, <1>i DEF Position, Reader!Breaks
<1>4. Measured'
  BY <1>1, <1>i DEF Measured
<1>5. FoundExactly'
  BY <1>1, <1>i DEF FoundExactly, Reader!Parsable, Reader!IsLine, Reader!Breaks
<1> QED
  BY <1>1, <1>2, <1>3, <1>4, <1>5, CursorRests DEF ReaderInv, TakenExactly, InRead

\* The end of the read moves the cursor behind its last complete line.
LEMMA CommitKeeps == ReaderInv /\ Reader!Commit => ReaderInv'
<1> SUFFICES ASSUME ReaderInv, Reader!Commit PROVE ReaderInv'
  OBVIOUS
<1>1. /\ step = "read" /\ pos = told /\ step' = "idle"
      /\ offset' = committed /\ discard' = (IF oversize THEN pos ELSE None)
      /\ taken' = taken \cup found
      /\ UNCHANGED <<bytes, start, told, pos, committed, line, oversize, found, failures,
                     resting, refused, refusedReads, starts>>
  BY DEF Reader!Commit, Reader!read, Reader!path
<1>i. /\ Reader!TypeOK /\ Position /\ Measured /\ FoundExactly
      /\ Len(bytes) \in Nat /\ offset \in Nat /\ committed \in Nat /\ pos \in Nat
  BY <1>1, AtByte
<1>p. /\ offset <= committed /\ committed <= pos /\ told <= Len(bytes)
      /\ (committed = 0 \/ bytes[committed] = "n") /\ ~Reader!Breaks(committed, pos)
  BY <1>i DEF Position
<1>2. Reader!TypeOK'
  <2>1. taken' \subseteq Nat /\ discard' \in Nat \cup {None} /\ offset' \in Nat
    BY <1>1, <1>i DEF Reader!TypeOK
  <2> QED
    BY <2>1, <1>1, <1>i DEF Reader!TypeOK
<1>3. Reader!TakenExactly'
  <2>1. taken = {b \in 1..offset : Reader!Parsable(b)}
    BY DEF ReaderInv, TakenExactly, Reader!TakenExactly
  <2>2. found = {b \in offset+1..committed : Reader!Parsable(b)}
    BY <1>i DEF FoundExactly
  <2>3. taken' = {b \in 1..committed : Reader!Parsable(b)}
    BY <2>1, <2>2, <1>1, <1>i, <1>p
  <2> QED
    BY <2>3, <1>1 DEF Reader!TakenExactly, Reader!Parsable, Reader!IsLine, Reader!Breaks
<1>4. Reader!CursorAtLine'
  <2>1. offset' <= Len(bytes') /\ (offset' = 0 \/ bytes'[offset'] = "n")
    BY <1>1, <1>i, <1>p
  <2>2. ASSUME discard' # None
        PROVE  /\ offset' + MaxLine < discard' /\ discard' <= Len(bytes')
               /\ ~Reader!Breaks(offset, discard)'
    <3>1. oversize /\ discard' = pos
      BY <2>2, <1>1
    <3>2. committed + MaxLine < pos
      BY <3>1, <1>i DEF Measured
    <3>3. ~Reader!Breaks(offset, discard)'
      BY <3>1, <1>1, <1>p DEF Reader!Breaks
    <3> QED
      BY <3>1, <3>2, <3>3, <1>1, <1>i, <1>p
  <2> QED
    BY <2>1, <2>2 DEF Reader!CursorAtLine
<1> QED
  BY <1>1, <1>2, <1>3, <1>4 DEF ReaderInv, TakenExactly, InRead

-----------------------------------------------------------------------------
\* The parser gets exactly the complete lines that are neither empty nor too long,
\* once each and up to the cursor, and the cursor stands behind a complete line:
\* however long lines and files are, whatever the budgets of a read, and through
\* any number of refused reads, of reads cut short and of restarts (read_appended).
THEOREM LinesTaken == ScanningSpec => []TakenExactly
<1>1. ScanningInit => ReaderInv
  BY ReaderInitially DEF ScanningInit
<1>2. ReaderInv /\ [ScanningNext]_scanningVars => ReaderInv'
  <2> SUFFICES ASSUME ReaderInv, [ScanningNext]_scanningVars PROVE ReaderInv'
    OBVIOUS
  <2>1. CASE OfReader(Reader!Next)
    <3>1. \/ Reader!Write \/ Reader!Rested \/ Reader!Restart \/ Reader!Refuse
          \/ Reader!CutShort \/ Reader!AtEnd \/ Reader!NothingNew \/ Reader!Open
          \/ Reader!Newline \/ Reader!Skip \/ Reader!Collect \/ Reader!Commit
      BY <2>1 DEF OfReader, Reader!Next, Reader!Scan
    <3> QED
      BY <3>1, WriteKeeps, WaitKeeps, RestartKeeps, OpenKeeps, NewlineKeeps, ByteKeeps,
         CutShortKeeps, CommitKeeps
  <2>2. CASE UNCHANGED readerVars
    <3>1. Reader!TypeOK'
      BY <2>2 DEF readerVars, ReaderInv, TakenExactly, Reader!TypeOK
    <3>2. UNCHANGED <<bytes, offset, discard, taken, step, told, pos, committed, line,
                      oversize, found>>
      BY <2>2 DEF readerVars
    <3> QED
      BY <3>1, <3>2, ReaderRests
  <2> QED
    BY <2>1, <2>2 DEF ScanningNext, OfSchedule, OfFetch, scanningVars
<1>3. ReaderInv => TakenExactly
  BY DEF ReaderInv
<1> QED
  BY <1>1, <1>2, <1>3, PTL DEF ScanningSpec

-----------------------------------------------------------------------------
(***************************************************************************)
(* The queues of ScanSchedule.  First what the operators on sequences that *)
(* they are kept with do: an element more or less, filters, and the fold   *)
(* that queues many paths, by FoldLemmas.                                  *)
(***************************************************************************)
\* t is s with one element more, or without one.
IsInserted(t, s, i, e) ==
    /\ Len(t) = Len(s) + 1
    /\ \A j \in 1..Len(s) + 1 : t[j] = IF j < i THEN s[j] ELSE IF j = i THEN e ELSE s[j - 1]

IsRemoved(t, s, i) ==
    /\ Len(t) = Len(s) - 1
    /\ \A j \in 1..Len(s) - 1 : t[j] = IF j < i THEN s[j] ELSE s[j + 1]

\* So is what InsertAt and RemoveAt return.
LEMMA Inserted ==
  ASSUME NEW U, NEW s \in Seq(U), NEW i \in 1..Len(s) + 1, NEW e \in U
  PROVE  InsertAt(s, i, e) \in Seq(U) /\ IsInserted(InsertAt(s, i, e), s, i, e)
<1> DEFINE a == SubSeq(s, 1, i - 1)  b == SubSeq(s, i, Len(s))
<1>1. /\ a \in Seq(U) /\ Len(a) = i - 1 /\ \A j \in 1..i - 1 : a[j] = s[j]
      /\ b \in Seq(U) /\ Len(b) = Len(s) + 1 - i
      /\ \A j \in 1..Len(s) + 1 - i : b[j] = s[i + j - 1]
  OBVIOUS
<1>2. InsertAt(s, i, e) = (a \o <<e>>) \o b
  BY DEF InsertAt
<1> HIDE DEF a, b
<1>3. /\ a \o <<e>> \in Seq(U) /\ Len(a \o <<e>>) = i
      /\ \A j \in 1..i : (a \o <<e>>)[j] = IF j < i THEN s[j] ELSE e
  <2>1. <<e>> \in Seq(U) /\ Len(<<e>>) = 1 /\ <<e>>[1] = e
    OBVIOUS
  <2>2. /\ a \o <<e>> \in Seq(U) /\ Len(a \o <<e>>) = i
        /\ \A j \in 1..i : (a \o <<e>>)[j] = IF j <= i - 1 THEN a[j] ELSE <<e>>[j - (i - 1)]
    <3> DEFINE d == <<e>>
    <3> HIDE DEF d
    <3>1. d \in Seq(U) /\ Len(d) = 1
      BY <2>1 DEF d
    <3>2. /\ a \o d \in Seq(U) /\ Len(a \o d) = Len(a) + Len(d)
          /\ \A j \in 1..Len(a) + Len(d) : (a \o d)[j] = IF j <= Len(a) THEN a[j] ELSE d[j - Len(a)]
      BY <1>1, <3>1, ConcatProperties
    <3> QED BY <1>1, <3>1, <3>2 DEF d
  <2>3. \A j \in 1..i : j <= i - 1 <=> j < i
    OBVIOUS
  <2>4. \A j \in 1..i : ~(j < i) => j - (i - 1) = 1
    OBVIOUS
  <2> QED BY <1>1, <2>1, <2>2, <2>3, <2>4
<1> DEFINE c == a \o <<e>>
<1> HIDE DEF c
<1>4. /\ c \o b \in Seq(U) /\ Len(c \o b) = Len(s) + 1
      /\ \A j \in 1..Len(s) + 1 : (c \o b)[j] = IF j <= i THEN c[j] ELSE b[j - i]
  <2>1. c \in Seq(U) /\ Len(c) = i /\ b \in Seq(U) /\ i + Len(b) = Len(s) + 1
    BY <1>1, <1>3 DEF c
  <2>2. /\ c \o b \in Seq(U) /\ Len(c \o b) = Len(c) + Len(b)
        /\ \A j \in 1..Len(c) + Len(b) : (c \o b)[j] = IF j <= Len(c) THEN c[j] ELSE b[j - Len(c)]
    BY <2>1, ConcatProperties
  <2> QED BY <2>1, <2>2
<1>5. \A j \in 1..Len(s) + 1 : j > i => b[j - i] = s[j - 1]
  <2> TAKE j \in 1..Len(s) + 1
  <2> HAVE j > i
  <2>1. j - i \in 1..Len(s) + 1 - i /\ i + (j - i) - 1 = j - 1
    OBVIOUS
  <2> QED BY <1>1, <2>1
<1> DEFINE t == c \o b
<1>6. ASSUME NEW j \in 1..Len(s) + 1
      PROVE  t[j] = IF j < i THEN s[j] ELSE IF j = i THEN e ELSE s[j - 1]
  <2>1. CASE j <= i
    <3>1. j \in 1..i /\ t[j] = c[j]
      BY <1>4, <2>1
    <3> QED BY <1>3, <2>1, <3>1 DEF c
  <2>2. CASE ~(j <= i)
    BY <1>4, <1>5, <2>2
  <2> QED BY <2>1, <2>2
<1>7. t \in Seq(U) /\ Len(t) = Len(s) + 1 /\ InsertAt(s, i, e) = t
  BY <1>2, <1>4 DEF c
<1> HIDE DEF t
<1> QED BY <1>6, <1>7 DEF IsInserted

\* And with one element less.
LEMMA Removed ==
  ASSUME NEW U, NEW s \in Seq(U), NEW i \in 1..Len(s)
  PROVE  RemoveAt(s, i) \in Seq(U) /\ IsRemoved(RemoveAt(s, i), s, i)
<1> DEFINE a == SubSeq(s, 1, i - 1)  b == SubSeq(s, i + 1, Len(s))
<1>1. /\ a \in Seq(U) /\ Len(a) = i - 1 /\ \A j \in 1..i - 1 : a[j] = s[j]
      /\ b \in Seq(U) /\ Len(b) = Len(s) - i
      /\ \A j \in 1..Len(s) - i : b[j] = s[i + j]
  OBVIOUS
<1>2. RemoveAt(s, i) = a \o b
  BY DEF RemoveAt
<1> HIDE DEF a, b
<1>3. /\ a \o b \in Seq(U) /\ Len(a \o b) = Len(s) - 1
      /\ \A j \in 1..Len(s) - 1 : (a \o b)[j] = IF j < i THEN a[j] ELSE b[j - (i - 1)]
  <2>1. Len(a) + Len(b) = Len(s) - 1
    BY <1>1
  <2>2. /\ a \o b \in Seq(U) /\ Len(a \o b) = Len(a) + Len(b)
        /\ \A j \in 1..Len(a) + Len(b) : (a \o b)[j] = IF j <= Len(a) THEN a[j] ELSE b[j - Len(a)]
    BY <1>1, ConcatProperties
  <2>3. \A j \in 1..Len(s) - 1 : j <= i - 1 <=> j < i
    OBVIOUS
  <2> QED BY <1>1, <2>1, <2>2, <2>3
<1>4. \A j \in 1..Len(s) - 1 : j >= i => b[j - (i - 1)] = s[j + 1]
  <2> TAKE j \in 1..Len(s) - 1
  <2> HAVE j >= i
  <2>1. j - (i - 1) \in 1..Len(s) - i /\ i + (j - (i - 1)) = j + 1
    OBVIOUS
  <2> QED BY <1>1, <2>1
<1>5. \A j \in 1..Len(s) - 1 : j < i => a[j] = s[j]
  BY <1>1
<1> DEFINE t == a \o b
<1>6. ASSUME NEW j \in 1..Len(s) - 1 PROVE t[j] = IF j < i THEN s[j] ELSE s[j + 1]
  BY <1>3, <1>4, <1>5
<1>7. t \in Seq(U) /\ Len(t) = Len(s) - 1 /\ RemoveAt(s, i) = t
  BY <1>2, <1>3
<1> HIDE DEF t
<1> QED BY <1>6, <1>7 DEF IsRemoved

\* What remains in it, and what a longer one has.
LEMMA RemovedSet ==
  ASSUME NEW U, NEW s \in Seq(U), NEW i \in 1..Len(s)
  PROVE  \A x \in ToSet(s) : x # s[i] => x \in ToSet(RemoveAt(s, i))
<1> SUFFICES ASSUME NEW k \in 1..Len(s), s[k] # s[i] PROVE s[k] \in ToSet(RemoveAt(s, i))
  BY DEF ToSet
<1> DEFINE r == RemoveAt(s, i)
<1>1. /\ r \in Seq(U) /\ Len(r) = Len(s) - 1
      /\ \A j \in 1..Len(s) - 1 : r[j] = IF j < i THEN s[j] ELSE s[j + 1]
  BY Removed DEF IsRemoved
<1> HIDE DEF r
<1>2. DOMAIN r = 1..Len(s) - 1
  BY <1>1
<1>3. CASE k < i
  <2>1. k \in 1..Len(s) - 1
    BY <1>3
  <2> QED BY <1>1, <1>2, <1>3, <2>1 DEF ToSet, r
<1>4. CASE k > i
  <2>1. k - 1 \in 1..Len(s) - 1 /\ ~(k - 1 < i) /\ (k - 1) + 1 = k
    BY <1>4
  <2>2. r[k - 1] = s[k]
    BY <1>1, <2>1
  <2> QED BY <1>2, <2>1, <2>2 DEF ToSet, r
<1> QED BY <1>3, <1>4

\* It has nothing else.
LEMMA RemovedSubset ==
  ASSUME NEW U, NEW s \in Seq(U), NEW i \in 1..Len(s)
  PROVE  ToSet(RemoveAt(s, i)) \subseteq ToSet(s)
<1> DEFINE r == RemoveAt(s, i)
<1>1. /\ r \in Seq(U) /\ Len(r) = Len(s) - 1
      /\ \A j \in 1..Len(s) - 1 : r[j] = IF j < i THEN s[j] ELSE s[j + 1]
  BY Removed DEF IsRemoved
<1> HIDE DEF r
<1>2. DOMAIN r = 1..Len(s) - 1 /\ DOMAIN s = 1..Len(s)
  BY <1>1
<1>3. \A j \in 1..Len(s) - 1 : j \in 1..Len(s) /\ j + 1 \in 1..Len(s)
  OBVIOUS
<1> QED BY <1>1, <1>2, <1>3 DEF ToSet, r

\* The elements of sequences that are put together.
LEMMA AppendSet ==
  ASSUME NEW U, NEW s \in Seq(U), NEW e \in U
  PROVE  Append(s, e) \in Seq(U) /\ ToSet(Append(s, e)) = ToSet(s) \cup {e}
<1> DEFINE t == Append(s, e)
<1>1. /\ t \in Seq(U) /\ Len(t) = Len(s) + 1
      /\ \A i \in 1..Len(s) : t[i] = s[i] /\ t[Len(s) + 1] = e
  BY AppendProperties
<1>2. t[Len(s) + 1] = e
  OBVIOUS
<1> HIDE DEF t
<1>3. DOMAIN t = 1..Len(s) + 1 /\ DOMAIN s = 1..Len(s)
  BY <1>1
<1>4. \A x : x \in ToSet(t) <=> x \in ToSet(s) \cup {e}
  BY <1>1, <1>2, <1>3 DEF ToSet
<1> QED BY <1>1, <1>4 DEF t

\* Both sequences, one behind the other.
LEMMA ConcatSet ==
  ASSUME NEW U, NEW s \in Seq(U), NEW t \in Seq(U)
  PROVE  s \o t \in Seq(U) /\ ToSet(s \o t) = ToSet(s) \cup ToSet(t)
<1> DEFINE c == s \o t
<1>1. /\ c \in Seq(U) /\ Len(c) = Len(s) + Len(t)
      /\ \A i \in 1..Len(s) + Len(t) : c[i] = IF i <= Len(s) THEN s[i] ELSE t[i - Len(s)]
  BY ConcatProperties
<1> HIDE DEF c
<1>2. DOMAIN c = 1..Len(s) + Len(t) /\ DOMAIN s = 1..Len(s) /\ DOMAIN t = 1..Len(t)
  BY <1>1
<1>3. ASSUME NEW x \in ToSet(c) PROVE x \in ToSet(s) \cup ToSet(t)
  <2>1. PICK i \in 1..Len(s) + Len(t) : c[i] = x
    BY <1>2 DEF ToSet
  <2>2. CASE i <= Len(s)
    BY <1>1, <1>2, <2>1, <2>2 DEF ToSet
  <2>3. CASE ~(i <= Len(s))
    <3>1. i - Len(s) \in 1..Len(t)
      BY <2>3
    <3> QED BY <1>1, <1>2, <2>1, <2>3, <3>1 DEF ToSet
  <2> QED BY <2>2, <2>3
<1>4. ASSUME NEW x \in ToSet(s) PROVE x \in ToSet(c)
  <2>1. PICK i \in 1..Len(s) : s[i] = x
    BY <1>2 DEF ToSet
  <2>2. i \in 1..Len(s) + Len(t) /\ i <= Len(s)
    OBVIOUS
  <2> QED BY <1>1, <1>2, <2>1, <2>2 DEF ToSet
<1>5. ASSUME NEW x \in ToSet(t) PROVE x \in ToSet(c)
  <2>1. PICK i \in 1..Len(t) : t[i] = x
    BY <1>2 DEF ToSet
  <2>2. i + Len(s) \in 1..Len(s) + Len(t) /\ ~(i + Len(s) <= Len(s)) /\ (i + Len(s)) - Len(s) = i
    OBVIOUS
  <2> QED BY <1>1, <1>2, <2>1, <2>2 DEF ToSet
<1> QED BY <1>1, <1>3, <1>4, <1>5 DEF c

\* One that an element was put into.
LEMMA InsertedSet ==
  ASSUME NEW U, NEW s \in Seq(U), NEW i \in 1..Len(s) + 1, NEW e \in U
  PROVE  InsertAt(s, i, e) \in Seq(U) /\ ToSet(InsertAt(s, i, e)) = ToSet(s) \cup {e}
<1>0. /\ InsertAt(s, i, e) \in Seq(U) /\ Len(InsertAt(s, i, e)) = Len(s) + 1
      /\ \A j \in 1..Len(s) + 1 : InsertAt(s, i, e)[j] =
            IF j < i THEN s[j] ELSE IF j = i THEN e ELSE s[j - 1]
  <2>1. InsertAt(s, i, e) \in Seq(U) /\ IsInserted(InsertAt(s, i, e), s, i, e)
    BY Inserted
  <2> QED BY <2>1 DEF IsInserted
<1> DEFINE t == InsertAt(s, i, e)
<1>1. /\ t \in Seq(U) /\ Len(t) = Len(s) + 1
      /\ \A j \in 1..Len(s) + 1 : t[j] = IF j < i THEN s[j] ELSE IF j = i THEN e ELSE s[j - 1]
  BY <1>0
<1> HIDE DEF t
<1>2. DOMAIN t = 1..Len(s) + 1 /\ DOMAIN s = 1..Len(s)
  BY <1>1
<1>3. ASSUME NEW x \in ToSet(t) PROVE x \in ToSet(s) \cup {e}
  <2>1. PICK j \in 1..Len(s) + 1 : t[j] = x
    BY <1>2 DEF ToSet
  <2>2. j < i => j \in 1..Len(s)
    OBVIOUS
  <2>3. ~(j < i) /\ j # i => j - 1 \in 1..Len(s)
    OBVIOUS
  <2> QED BY <1>1, <1>2, <2>1, <2>2, <2>3 DEF ToSet
<1>4. ASSUME NEW x \in ToSet(s) PROVE x \in ToSet(t)
  <2>1. PICK j \in 1..Len(s) : s[j] = x
    BY <1>2 DEF ToSet
  <2>2. CASE j < i
    <3>1. j \in 1..Len(s) + 1
      OBVIOUS
    <3> QED BY <1>1, <1>2, <2>1, <2>2, <3>1 DEF ToSet
  <2>3. CASE ~(j < i)
    <3>1. j + 1 \in 1..Len(s) + 1 /\ ~(j + 1 < i) /\ j + 1 # i /\ (j + 1) - 1 = j
      BY <2>3
    <3>2. t[j + 1] = x
      BY <1>1, <2>1, <3>1
    <3> QED BY <1>2, <3>1, <3>2 DEF ToSet
  <2> QED BY <2>2, <2>3
<1>5. e \in ToSet(t)
  BY <1>1, <1>2 DEF ToSet
<1> QED BY <1>1, <1>3, <1>4, <1>5 DEF t

\* What is left behind its head.
LEMMA TailSet ==
  ASSUME NEW U, NEW s \in Seq(U), s # <<>>
  PROVE  /\ Head(s) \in ToSet(s) /\ Head(s) \in U /\ Tail(s) \in Seq(U)
         /\ ToSet(Tail(s)) \subseteq ToSet(s) /\ Len(Tail(s)) = Len(s) - 1 /\ Len(s) >= 1
<1> DEFINE t == Tail(s)
<1>1. /\ t \in Seq(U) /\ Len(t) = Len(s) - 1 /\ \A i \in 1..Len(t) : t[i] = s[i + 1]
      /\ Head(s) \in U
  BY HeadTailProperties
<1>2. Len(s) >= 1 /\ Head(s) = s[1]
  BY EmptySeq
<1> HIDE DEF t
<1>3. DOMAIN t = 1..Len(s) - 1 /\ DOMAIN s = 1..Len(s)
  BY <1>1
<1>4. \A i \in 1..Len(s) - 1 : i + 1 \in 1..Len(s)
  OBVIOUS
<1>5. 1 \in 1..Len(s)
  BY <1>2
<1> QED BY <1>1, <1>2, <1>3, <1>4, <1>5 DEF ToSet, t

\* Filter leaves the elements that are in the set, and no others.
LEMMA FilterIs ==
  ASSUME NEW U, NEW s \in Seq(U), NEW S
  PROVE  Filter(s, S) \in Seq(U) /\ ToSet(Filter(s, S)) = ToSet(s) \cap S
<1> DEFINE n == Len(s)
           Keep(acc, x) == IF x \in S THEN Append(acc, x) ELSE acc
           o == [i \in 1..n |-> [t \in Seq(U) |-> Keep(t, s[i])]]
           IsFold(g) == g = [R \in SUBSET (DOMAIN s) |-> IF R = {} THEN <<>>
                               ELSE Keep(g[R \ {Max(R)}], s[Max(R)])]
           fold == CHOOSE g : IsFold(g)
<1>1. n \in Nat /\ DOMAIN s = 1..n /\ \A i \in 1..n : s[i] \in U
  OBVIOUS
<1>2. Filter(s, S) = fold[1..n]
  BY <1>1 DEF Filter, FoldLeft, MapThenFoldSet
<1> HIDE DEF n
<1>3. \A t \in Seq(U), i \in 1..n : Keep(t, s[i]) \in Seq(U)
  BY <1>1
<1>4. o \in [1..n -> [Seq(U) -> Seq(U)]] /\ <<>> \in Seq(U)
  BY <1>3
<1>5. \A R \in SUBSET (1..n) : R # {} => Max(R) \in 1..n
  <2>1. \A R \in SUBSET (1..n) : R \in SUBSET (0..n)
    OBVIOUS
  <2> QED BY <1>1, <2>1, MaxIs
<1>6. \E g : IsFold(g)
  <2> HIDE DEF o
  <2>1. PICK g \in [SUBSET (1..n) -> Seq(U)] : FoldsLeft(o, <<>>, n, g)
    BY <1>1, <1>4, FoldExists
  <2>2. ASSUME NEW R \in SUBSET (1..n)
        PROVE  g[R] = IF R = {} THEN <<>> ELSE Keep(g[R \ {Max(R)}], s[Max(R)])
    <3>1. g[R] = IF R = {} THEN <<>> ELSE o[Max(R)][g[R \ {Max(R)}]]
      BY <2>1 DEF FoldsLeft
    <3>2. R \ {Max(R)} \in SUBSET (1..n) /\ g[R \ {Max(R)}] \in Seq(U)
      OBVIOUS
    <3> QED BY <1>5, <3>1, <3>2 DEF o
  <2>3. IsFold(g)
    BY <1>1, <2>2
  <2> QED BY <2>3
<1>7. IsFold(fold)
  <2> HIDE DEF IsFold
  <2> QED BY <1>6
<1>8. \E h \in [0..n -> Seq(U)] : IsRun(o, <<>>, n, h) /\ h[n] = fold[1..n]
  <2> HIDE DEF fold
  <2>1. fold[{}] = <<>>
    BY <1>7
  <2>2. \A R \in SUBSET (1..n) :
           R # {} /\ fold[R \ {Max(R)}] \in Seq(U) =>
              fold[R] = o[Max(R)][fold[R \ {Max(R)}]]
    BY <1>1, <1>5, <1>7
  <2>3. FoldsWithin(Seq(U), o, <<>>, n, fold)
    BY <2>1, <2>2 DEF FoldsWithin
  <2> DEFINE T == Seq(U)  base == <<>>
  <2>4. n \in Nat /\ o \in [1..n -> [T -> T]] /\ base \in T /\ FoldsWithin(T, o, base, n, fold)
    BY <1>1, <1>4, <2>3
  <2> HIDE DEF IsFold, o, T, base, Keep
  <2>5. \E h \in [0..n -> T] : IsRun(o, base, n, h) /\ h[n] = fold[1..n]
    BY <2>4, FoldRuns, SMTT(60)
  <2> QED BY <2>5 DEF T, base
<1>9. PICK h \in [0..n -> Seq(U)] : /\ h[0] = <<>> /\ h[n] = fold[1..n]
                                    /\ \A i \in 1..n : h[i] = o[i][h[i - 1]]
  BY <1>8 DEF IsRun
<1>10. ASSUME NEW i \in 1..n PROVE h[i] = Keep(h[i - 1], s[i]) /\ h[i - 1] \in Seq(U)
  <2>1. i - 1 \in 0..n
    BY <1>1
  <2> QED BY <1>9, <2>1
<1> DEFINE G == {i \in 0..n : ToSet(h[i]) = {s[j] : j \in 1..i} \cap S}
<1>11. \A i \in 0..n : i \in G
  <2>1. 0 \in G
    <3>1. {s[j] : j \in 1..0} = {} /\ ToSet(<<>>) = {} /\ 0 \in 0..n
      BY <1>1 DEF ToSet
    <3> QED BY <1>9, <3>1
  <2>2. ASSUME NEW i \in 1..n, i - 1 \in G PROVE i \in G
    <3>1. {s[j] : j \in 1..i} = {s[j] : j \in 1..i - 1} \cup {s[i]}
      <4>1. 1..i = (1..i - 1) \cup {i}
        OBVIOUS
      <4> QED BY <4>1
    <3>2. s[i] \in U /\ ToSet(Append(h[i - 1], s[i])) = ToSet(h[i - 1]) \cup {s[i]}
      BY <1>1, <1>10, AppendSet
    <3>3. ToSet(h[i]) = {s[j] : j \in 1..i} \cap S
      BY <1>10, <2>2, <3>1, <3>2
    <3> QED BY <3>3
  <2> HIDE DEF G
  <2> QED BY <1>1, <2>1, <2>2, UpTo
<1>12. ToSet(h[n]) = ToSet(s) \cap S /\ h[n] \in Seq(U)
  <2>1. n \in 0..n
    BY <1>1
  <2>2. n \in G
    BY <1>11, <2>1
  <2> QED BY <1>1, <2>1, <2>2 DEF ToSet
<1> HIDE DEF fold
<1> QED BY <1>2, <1>9, <1>12

-----------------------------------------------------------------------------

\* The counters of a queue cut it where its flags do.
Delimits(r) ==
    /\ r.today <= r.recent /\ r.recent <= Len(r.list)
    /\ \A i \in 1..Len(r.list) : r.list[i][2] <=> i <= r.recent

Registries ==
    {r \in [list : Seq(Files \X BOOLEAN), today : Nat, recent : Nat] : Delimits(r)}

\* What a queue of registrations is, said at once.
LEMMA RegistryIs ==
  ASSUME NEW r \in Registries
  PROVE  /\ r.list \in Seq(Files \X BOOLEAN) /\ r.today \in Nat /\ r.recent \in Nat
         /\ r.today <= r.recent /\ r.recent <= Len(r.list) /\ Len(r.list) \in Nat
         /\ \A i \in 1..Len(r.list) : r.list[i][2] <=> i <= r.recent
         /\ \A i \in 1..Len(r.list) : r.list[i] \in Files \X BOOLEAN
BY DEF Registries, Delimits

\* An entry of a recent file goes behind the recent ones, or those of today.
LEMMA InsertKeeps ==
  ASSUME NEW r \in Registries, NEW f \in Files
  PROVE  /\ InsertRecent(r, f) \in Registries
         /\ Len(InsertRecent(r, f).list) = Len(r.list) + 1
<1> DEFINE l == r.list
<1>1. /\ l \in Seq(Files \X BOOLEAN) /\ r.today \in Nat /\ r.recent \in Nat
      /\ r.today <= r.recent /\ r.recent <= Len(l) /\ Len(l) \in Nat
      /\ \A i \in 1..Len(l) : l[i][2] <=> i <= r.recent
  BY RegistryIs
<1> HIDE DEF l
<1>2. ASSUME NEW p \in 1..r.recent + 1
      PROVE  LET t == InsertAt(l, p, <<f, TRUE>>)
             IN  /\ t \in Seq(Files \X BOOLEAN) /\ Len(t) = Len(l) + 1
                 /\ \A i \in 1..Len(l) + 1 : t[i][2] <=> i <= r.recent + 1
  <2> DEFINE e == <<f, TRUE>>  t == InsertAt(l, p, e)
  <2>0. e \in Files \X BOOLEAN /\ e[2]
    <3>1. e \in Files \X BOOLEAN
      OBVIOUS
    <3>2. e[2]
      OBVIOUS
    <3> QED BY <3>1, <3>2
  <2>1. p \in 1..Len(l) + 1
    BY <1>1
  <2> HIDE DEF e
  <2>2. /\ t \in Seq(Files \X BOOLEAN) /\ Len(t) = Len(l) + 1
        /\ \A i \in 1..Len(l) + 1 : t[i] = IF i < p THEN l[i] ELSE IF i = p THEN e ELSE l[i - 1]
    <3> DEFINE U == Files \X BOOLEAN
    <3>1. l \in Seq(U) /\ e \in U
      BY <1>1, <2>0
    <3> HIDE DEF U
    <3>2. /\ InsertAt(l, p, e) \in Seq(U) /\ Len(InsertAt(l, p, e)) = Len(l) + 1
          /\ \A j \in 1..Len(l) + 1 : InsertAt(l, p, e)[j] =
                IF j < p THEN l[j] ELSE IF j = p THEN e ELSE l[j - 1]
      BY <2>1, <3>1, Inserted DEF IsInserted
    <3> QED BY <3>2 DEF U
  <2> HIDE DEF t
  <2>3. ASSUME NEW i \in 1..Len(l) + 1 PROVE t[i][2] <=> i <= r.recent + 1
    <3>1. CASE i < p
      <4>1. i \in 1..Len(l) /\ i <= r.recent
        BY <1>1, <3>1
      <4> QED BY <1>1, <2>2, <3>1, <4>1
    <3>2. CASE i = p
      BY <1>1, <2>0, <2>2, <3>2
    <3>3. CASE i > p
      <4>1. i - 1 \in 1..Len(l) /\ ~(i < p) /\ i # p
        BY <1>1, <3>3
      <4>2. t[i] = l[i - 1]
        BY <2>2, <4>1
      <4>3. i - 1 <= r.recent <=> i <= r.recent + 1
        BY <1>1
      <4> QED BY <1>1, <4>1, <4>2, <4>3
    <3> QED BY <1>1, <3>1, <3>2, <3>3
  <2> QED BY <2>2, <2>3 DEF t, e
<1>3. r.today + 1 \in 1..r.recent + 1 /\ r.recent + 1 \in 1..r.recent + 1
  BY <1>1
<1>4. ASSUME NEW p \in 1..r.recent + 1, NEW today \in {r.today, r.today + 1}
      PROVE  [list |-> InsertAt(l, p, <<f, TRUE>>), today |-> today,
              recent |-> r.recent + 1] \in Registries
  <2> DEFINE t == InsertAt(l, p, <<f, TRUE>>)
  <2>1. /\ t \in Seq(Files \X BOOLEAN) /\ Len(t) = Len(l) + 1
        /\ \A i \in 1..Len(l) + 1 : t[i][2] <=> i <= r.recent + 1
    BY <1>2
  <2> HIDE DEF t
  <2>2. today \in Nat /\ today <= r.recent + 1 /\ r.recent + 1 \in Nat /\ r.recent + 1 <= Len(t)
    BY <1>1, <2>1
  <2>3. \A i \in 1..Len(t) : t[i][2] <=> i <= r.recent + 1
    BY <2>1
  <2> DEFINE q == [list |-> t, today |-> today, recent |-> r.recent + 1]
  <2>4. q.list = t /\ q.today = today /\ q.recent = r.recent + 1
    OBVIOUS
  <2>5. q \in [list : Seq(Files \X BOOLEAN), today : Nat, recent : Nat]
    BY <2>1, <2>2
  <2> HIDE DEF q
  <2>6. q \in Registries
    BY <2>2, <2>3, <2>4, <2>5 DEF Registries, Delimits
  <2> QED BY <2>6 DEF q, t
<1>5. InsertRecent(r, f) \in Registries
  BY <1>3, <1>4 DEF InsertRecent, l
<1>6. Len(InsertRecent(r, f).list) = Len(l) + 1
  BY <1>2, <1>3 DEF InsertRecent, l
<1> QED BY <1>5, <1>6 DEF l

\* A path that is taken out is counted out of its part.
LEMMA WithdrawKeeps ==
  ASSUME NEW r \in Registries, NEW f \in Files, \E i \in DOMAIN r.list : r.list[i][1] = f
  PROVE  /\ Withdraw(r, f) \in Registries
         /\ Len(Withdraw(r, f).list) = Len(r.list) - 1
<1> DEFINE l == r.list  p == PositionOf(r, f)  t == RemoveAt(l, p)
           today == IF p <= r.today THEN r.today - 1 ELSE r.today
           recent == IF p <= r.recent THEN r.recent - 1 ELSE r.recent
           q == [list |-> t, today |-> today, recent |-> recent]
<1>1. /\ l \in Seq(Files \X BOOLEAN) /\ r.today \in Nat /\ r.recent \in Nat
      /\ r.today <= r.recent /\ r.recent <= Len(l) /\ Len(l) \in Nat
      /\ \A i \in 1..Len(l) : l[i][2] <=> i <= r.recent
  BY RegistryIs
<1>2. p \in 1..Len(l)
  BY <1>1 DEF PositionOf
<1> HIDE DEF p, l
<1>3. /\ t \in Seq(Files \X BOOLEAN) /\ Len(t) = Len(l) - 1
      /\ \A i \in 1..Len(l) - 1 : t[i] = IF i < p THEN l[i] ELSE l[i + 1]
  BY <1>1, <1>2, Removed DEF IsRemoved
<1> HIDE DEF t
<1>4. /\ today \in Nat /\ recent \in Nat /\ today <= recent /\ recent <= Len(t)
  BY <1>1, <1>2, <1>3
<1>5. ASSUME NEW i \in 1..Len(t) PROVE t[i][2] <=> i <= recent
  <2>1. i \in 1..Len(l) /\ i + 1 \in 1..Len(l) /\ i \in 1..Len(l) - 1
    BY <1>1, <1>3
  <2>2. CASE i < p
    BY <1>1, <1>2, <1>3, <2>1, <2>2
  <2>3. CASE ~(i < p)
    <3>1. t[i] = l[i + 1]
      BY <1>3, <2>1, <2>3
    <3>2. i + 1 <= r.recent <=> i <= recent
      BY <1>1, <1>2, <2>3
    <3> QED BY <1>1, <2>1, <3>1, <3>2
  <2> QED BY <2>2, <2>3
<1> HIDE DEF today, recent
<1>6. q \in Registries
  <2>1. q.list = t /\ q.today = today /\ q.recent = recent
    OBVIOUS
  <2>2. q \in [list : Seq(Files \X BOOLEAN), today : Nat, recent : Nat]
    BY <1>3, <1>4
  <2> HIDE DEF q
  <2> QED BY <1>4, <1>5, <2>1, <2>2 DEF Registries, Delimits
<1>7. Withdraw(r, f) = q
  BY DEF Withdraw, q, t, p, l, today, recent
<1> QED BY <1>3, <1>6, <1>7 DEF l

\* Queueing a path, whatever is known of it.
LEMMA QueuedKeeps ==
  ASSUME NEW r \in Registries, NEW f \in Files, NEW recent \in BOOLEAN, NEW rests
  PROVE  /\ Queued(r, f, recent, rests) \in Registries
         /\ Len(r.list) <= Len(Queued(r, f, recent, rests).list)
<1>t. Len(r.list) \in Nat
  BY RegistryIs
<1>1. ASSUME \E i \in DOMAIN r.list : r.list[i][1] = f
      PROVE  /\ InsertRecent(Withdraw(r, f), f) \in Registries
             /\ Len(InsertRecent(Withdraw(r, f), f).list) = Len(r.list)
  <2>1. /\ Withdraw(r, f) \in Registries
        /\ Len(Withdraw(r, f).list) = Len(r.list) - 1
    BY <1>1, WithdrawKeeps
  <2> QED BY <1>t, <2>1, InsertKeeps
<1>2. /\ InsertRecent(r, f) \in Registries
      /\ Len(InsertRecent(r, f).list) = Len(r.list) + 1
  BY InsertKeeps
<1>3. LET q == [r EXCEPT !.list = Append(@, <<f, FALSE>>)]
      IN  q \in Registries /\ Len(q.list) = Len(r.list) + 1
  <2> DEFINE l == r.list  e == <<f, FALSE>>  t == Append(l, e)
             q == [list |-> t, today |-> r.today, recent |-> r.recent]
  <2>1. /\ l \in Seq(Files \X BOOLEAN) /\ r.today \in Nat /\ r.recent \in Nat
        /\ r.today <= r.recent /\ r.recent <= Len(l) /\ Len(l) \in Nat
        /\ \A i \in 1..Len(l) : l[i][2] <=> i <= r.recent
    BY RegistryIs
  <2>2. [r EXCEPT !.list = Append(@, <<f, FALSE>>)] = q
    <3>1. r \in [list : Seq(Files \X BOOLEAN), today : Nat, recent : Nat]
      BY DEF Registries
    <3>2. \A x : [r EXCEPT !.list = x] = [list |-> x, today |-> r.today, recent |-> r.recent]
      BY <3>1
    <3>3. [r EXCEPT !.list = Append(@, <<f, FALSE>>)] = [r EXCEPT !.list = Append(r.list, <<f, FALSE>>)]
      BY <3>1
    <3> QED BY <3>2, <3>3
  <2>3. e \in Files \X BOOLEAN /\ ~e[2]
    <3>1. e \in Files \X BOOLEAN
      OBVIOUS
    <3>2. ~e[2]
      OBVIOUS
    <3> QED BY <3>1, <3>2
  <2> HIDE DEF l, e
  <2>4. /\ t \in Seq(Files \X BOOLEAN) /\ Len(t) = Len(l) + 1
        /\ \A i \in 1..Len(l) : t[i] = l[i]
        /\ t[Len(l) + 1] = e
    BY <2>1, <2>3, AppendProperties
  <2> HIDE DEF t
  <2>5. ASSUME NEW i \in 1..Len(t) PROVE t[i][2] <=> i <= r.recent
    <3>1. CASE i <= Len(l)
      <4>1. i \in 1..Len(l)
        BY <2>1, <2>4, <3>1
      <4>2. t[i] = l[i]
        BY <2>4, <4>1
      <4> QED BY <2>1, <4>1, <4>2
    <3>2. CASE ~(i <= Len(l))
      <4>1. i = Len(l) + 1 /\ ~(i <= r.recent)
        BY <2>1, <2>4, <3>2
      <4>2. t[i] = e
        BY <2>4, <4>1
      <4> QED BY <2>3, <4>1, <4>2
    <3> QED BY <3>1, <3>2
  <2>6. q \in Registries
    <3>1. q.list = t /\ q.today = r.today /\ q.recent = r.recent
      OBVIOUS
    <3>2. q \in [list : Seq(Files \X BOOLEAN), today : Nat, recent : Nat]
      BY <2>1, <2>4
    <3>3. r.recent <= Len(t)
      BY <2>1, <2>4
    <3> HIDE DEF q
    <3> QED BY <2>1, <2>5, <3>1, <3>2, <3>3 DEF Registries, Delimits
  <2> QED BY <2>2, <2>4, <2>6 DEF l
<1> QED
  BY <1>t, <1>1, <1>2, <1>3 DEF Queued

\* Queueing many paths, one after the other.
LEMMA QueueAllKeeps ==
  ASSUME NEW pairs \in Seq(Files \X BOOLEAN), NEW r \in Registries, NEW rests
  PROVE  /\ QueueAll(pairs, r, rests) \in Registries
         /\ Len(r.list) <= Len(QueueAll(pairs, r, rests).list)
<1> DEFINE n == Len(pairs)
           Add(acc, pair) == Queued(acc, pair[1], pair[2], rests)
           o == [i \in 1..n |-> [q \in Registries |-> Add(q, pairs[i])]]
           IsFold(g) == g = [R \in SUBSET (DOMAIN pairs) |-> IF R = {} THEN r
                               ELSE Add(g[R \ {Max(R)}], pairs[Max(R)])]
           fold == CHOOSE g : IsFold(g)
<1>1. n \in Nat /\ DOMAIN pairs = 1..n
  OBVIOUS
<1>p. \A i \in 1..n : pairs[i] \in Files \X BOOLEAN
  OBVIOUS
<1>2. QueueAll(pairs, r, rests) = fold[1..n]
  BY <1>1 DEF QueueAll, FoldLeft, MapThenFoldSet
<1> HIDE DEF n
<1>3. ASSUME NEW q \in Registries, NEW i \in 1..n
      PROVE  Add(q, pairs[i]) \in Registries /\ Len(q.list) <= Len(Add(q, pairs[i]).list)
  <2>1. pairs[i][1] \in Files /\ pairs[i][2] \in BOOLEAN
    BY <1>p
  <2> QED BY <2>1, QueuedKeeps
<1> HIDE DEF Add
<1>4. o \in [1..n -> [Registries -> Registries]]
  BY <1>3
<1>5. \A R \in SUBSET (1..n) : R # {} => Max(R) \in 1..n
  <2>1. \A R \in SUBSET (1..n) : R \in SUBSET (0..n)
    OBVIOUS
  <2> QED BY <1>1, <2>1, MaxIs
<1>6. \E g : IsFold(g)
  <2> HIDE DEF o
  <2>1. PICK g \in [SUBSET (1..n) -> Registries] : FoldsLeft(o, r, n, g)
    BY <1>1, <1>4, FoldExists
  <2>2. ASSUME NEW R \in SUBSET (1..n)
        PROVE  g[R] = IF R = {} THEN r ELSE Add(g[R \ {Max(R)}], pairs[Max(R)])
    <3>1. g[R] = IF R = {} THEN r ELSE o[Max(R)][g[R \ {Max(R)}]]
      BY <2>1 DEF FoldsLeft
    <3>2. R \ {Max(R)} \in SUBSET (1..n) /\ g[R \ {Max(R)}] \in Registries
      OBVIOUS
    <3> QED BY <1>5, <3>1, <3>2 DEF o
  <2>3. IsFold(g)
    BY <1>1, <2>2
  <2> QED BY <2>3
<1>7. IsFold(fold)
  <2> HIDE DEF IsFold
  <2> QED BY <1>6
<1>8. \E h \in [0..n -> Registries] : IsRun(o, r, n, h) /\ h[n] = fold[1..n]
  <2> HIDE DEF fold
  <2>1. fold[{}] = r
    BY <1>7
  <2>2. \A R \in SUBSET (1..n) :
           R # {} /\ fold[R \ {Max(R)}] \in Registries =>
              fold[R] = o[Max(R)][fold[R \ {Max(R)}]]
    BY <1>1, <1>5, <1>7
  <2>3. FoldsWithin(Registries, o, r, n, fold)
    BY <2>1, <2>2 DEF FoldsWithin
  <2> DEFINE T == Registries
  <2>4. n \in Nat /\ o \in [1..n -> [T -> T]] /\ r \in T /\ FoldsWithin(T, o, r, n, fold)
    BY <1>1, <1>4, <2>3
  <2> HIDE DEF IsFold, o, T
  <2>5. \E h \in [0..n -> T] : IsRun(o, r, n, h) /\ h[n] = fold[1..n]
    BY <2>4, FoldRuns, SMTT(60)
  <2> QED BY <2>5 DEF T
<1>9. PICK h \in [0..n -> Registries] : /\ h[0] = r /\ h[n] = fold[1..n]
                                        /\ \A i \in 1..n : h[i] = o[i][h[i - 1]]
  BY <1>8 DEF IsRun
<1> DEFINE G == {i \in 0..n : Len(r.list) <= Len(h[i].list)}
<1>11. \A i \in 0..n : i \in G
  <2>l. \A q \in Registries : Len(q.list) \in Nat
    BY RegistryIs
  <2>1. 0 \in G
    BY <1>1, <1>9, <2>l
  <2>2. ASSUME NEW i \in 1..n, i - 1 \in G PROVE i \in G
    <3>1. i - 1 \in 0..n /\ i \in 0..n
      BY <1>1
    <3>2. h[i - 1] \in Registries /\ h[i] = Add(h[i - 1], pairs[i])
      BY <1>9, <3>1
    <3>3. Len(h[i - 1].list) <= Len(h[i].list) /\ h[i] \in Registries
      BY <1>3, <3>2
    <3> QED BY <2>l, <2>2, <3>1, <3>2, <3>3
  <2> HIDE DEF G
  <2> QED BY <1>1, <2>1, <2>2, UpTo
<1>12. h[n] \in Registries /\ Len(r.list) <= Len(h[n].list)
  <2>1. n \in 0..n
    BY <1>1
  <2> QED BY <1>11, <2>1
<1> HIDE DEF fold
<1> QED BY <1>2, <1>9, <1>12

\* A finite set as a sequence.
LEMMA ListedIs ==
  ASSUME NEW S, IsFiniteSet(S)
  PROVE  SetToSeq(S) \in [1..Cardinality(S) -> S] /\ Cardinality(S) \in Nat
<1> DEFINE n == Cardinality(S)
<1>1. n \in Nat /\ ExistsBijection(1..n, S)
  BY FS_CardinalityType
<1>2. PICK g : g \in Bijection(1..n, S)
  BY <1>1 DEF ExistsBijection
<1>3. SetToSeq(S) = CHOOSE f \in [1..n -> S] : IsInjective(f)
  BY DEF SetToSeq
<1> HIDE DEF n
<1>4. g \in [1..n -> S] /\ IsInjective(g)
  BY <1>2 DEF Bijection, Injection, Surjection, IsInjective
<1>5. SetToSeq(S) \in [1..n -> S]
  BY <1>3, <1>4
<1> QED BY <1>1, <1>5 DEF n

\* Of some positions one is the first.
LEMMA FirstIs ==
  ASSUME NEW B \in SUBSET Nat, B # {}
  PROVE  \E i \in B : \A j \in B : i <= j
<1>1. PICK i \in B : \A j \in B : <<j, i>> \notin OpToRel(<, Nat)
  BY NatLessThanWellFounded, WFMin
<1>2. \A j \in B : ~(j < i)
  BY <1>1 DEF OpToRel
<1> QED BY <1>2

\* The order in which the files were looked at is one of all files, and remains
\* so when the one that is looked at goes to its end.
LEMMA OrderKept ==
  ASSUME NEW s \in Seq(Files), ToSet(s) = Files, IsInjective(s), NEW f \in Files
  PROVE  LET t == Append(RemoveAt(s, CHOOSE i \in DOMAIN s : s[i] = f), f)
         IN  t \in Seq(Files) /\ ToSet(t) = Files /\ IsInjective(t)
<1> DEFINE p == CHOOSE i \in DOMAIN s : s[i] = f
           r == RemoveAt(s, p)
           t == Append(r, f)
<1>1. p \in 1..Len(s) /\ s[p] = f
  BY DEF ToSet
<1> HIDE DEF p
<1>2. /\ r \in Seq(Files) /\ Len(r) = Len(s) - 1
      /\ \A j \in 1..Len(s) - 1 : r[j] = IF j < p THEN s[j] ELSE s[j + 1]
  BY <1>1, Removed DEF IsRemoved
<1>3. \A x \in ToSet(s) : x # s[p] => x \in ToSet(r)
  BY <1>1, RemovedSet
<1> HIDE DEF r
<1>4. t \in Seq(Files) /\ ToSet(t) = ToSet(r) \cup {f}
  BY <1>2, AppendSet
<1>5. ToSet(r) \subseteq Files
  BY <1>2 DEF ToSet
<1>6. ToSet(t) = Files
  BY <1>1, <1>3, <1>4, <1>5
<1>7. /\ Len(t) = Len(s) /\ DOMAIN t = 1..Len(s) /\ t[Len(s)] = f
      /\ \A j \in 1..Len(s) - 1 : t[j] = r[j]
  <2>1. /\ Len(t) = Len(r) + 1
        /\ \A i \in 1..Len(r) : t[i] = r[i]
        /\ t[Len(r) + 1] = f
    BY <1>2, AppendProperties
  <2>2. Len(r) + 1 = Len(s)
    BY <1>2
  <2> HIDE DEF t
  <2> QED BY <1>2, <1>4, <2>1, <2>2
<1> HIDE DEF t
<1>8. \A i, j \in 1..Len(s) : s[i] = s[j] => i = j
  BY DEF IsInjective
<1> DEFINE at(j) == IF j = Len(s) THEN p ELSE IF j < p THEN j ELSE j + 1
<1>9. \A j \in 1..Len(s) : at(j) \in 1..Len(s) /\ t[j] = s[at(j)]
  <2> TAKE j \in 1..Len(s)
  <2>1. CASE j = Len(s)
    BY <1>1, <1>7, <2>1
  <2>2. CASE j # Len(s)
    <3>1. j \in 1..Len(s) - 1
      BY <2>2
    <3>2. t[j] = IF j < p THEN s[j] ELSE s[j + 1]
      BY <1>2, <1>7, <3>1
    <3>3. at(j) \in 1..Len(s)
      BY <1>1, <2>2, <3>1
    <3> QED BY <2>2, <3>2, <3>3
  <2> QED BY <2>1, <2>2
<1>10. \A i, j \in 1..Len(s) : at(i) = at(j) => i = j
  BY <1>1
<1>11. \A i, j \in 1..Len(s) : t[i] = t[j] => i = j
  <2> HIDE DEF at
  <2> QED BY <1>8, <1>9, <1>10
<1>12. IsInjective(t)
  BY <1>7, <1>11 DEF IsInjective
<1> QED BY <1>4, <1>6, <1>12 DEF t, r, p

\* The files are finitely many.
LEMMA FilesFinite == IsFiniteSet(Files)
<1>1. Order \in Seq(Files) /\ ToSet(Order) = Files
  BY ScheduleAssumption DEF Files
<1>2. Order \in Surjection(1..Len(Order), Files)
  BY <1>1 DEF ToSet, Surjection
<1>3. IsFiniteSet(1..Len(Order))
  BY <1>1, FS_Interval
<1> QED BY <1>2, <1>3, FS_Surjection
-----------------------------------------------------------------------------
(***************************************************************************)
(* The invariant: what has its type and its bounds, by the parts of the    *)
(* state, and what QueuesTrue says between ticks, at every step of one.    *)
(***************************************************************************)
DiskOK ==
    /\ size \in [Files -> 0..MaxSize] /\ age \in [Files -> Ages]
    /\ changed \subseteq Providers /\ writes \in 0..MaxWrites

\* A file is at least as long as it was when it was looked at.
CursorOK ==
    /\ cursor \in [Files -> [size : 0..MaxSize, offset : 0..MaxSize, age : Ages]
                              \cup {None}]
    /\ \A f \in Known : cursor[f].offset <= cursor[f].size /\ cursor[f].size <= size[f]

OrderOK == statOrder \in Seq(Files) /\ ToSet(statOrder) = Files /\ IsInjective(statOrder)

ListsOK ==
    /\ discover \in Seq(Providers)
    /\ pending \in Seq(Files) /\ deferred \in Seq(Files)
    /\ ToSet(pending) \cup ToSet(deferred) \subseteq Known
    /\ parked \in Seq(Files \X BOOLEAN)

TimersOK ==
    /\ refusals \in 0..MaxRefusals /\ attempts \in [Files -> 0..MaxRetries]
    /\ rest \in [Files -> 0..Long] /\ cool \in [Files -> 0..Long]

ModeOK == {rediscover, catchUp, backlog} \subseteq BOOLEAN /\ preferred \in Providers

BudgetOK == work \in 0..FilesCatchUp /\ opens \in 0..FilesCatchUp /\ portions \in Nat

PendingOK == pendingPortions \in Nat

\* Each part of a tick finds what it has left to do; a round that takes a path
\* finds one.
PartOK ==
    /\ pc \in {"idle", "discover", "register", "hot", "pending", "restat"}
    /\ pc \in {"discover", "register", "hot"} => opens = 0
    /\ pc \in {"discover", "register"} => queue \in Seq(Nat)
    /\ pc = "register" => Len(queue) <= work /\ Len(queue) <= Len(registrations)
    /\ pc = "pending" => queue \in Seq(Files) /\ Len(queue) <= Len(pending)
    /\ pc = "restat" => queue \in Seq(Files) /\ ToSet(queue) \subseteq Known

\* A file with unread bytes is in a queue, or is looked at again in time.
Kept == \A f \in Known :
    Unread(f) => f \in ToSet(pending) \cup ToSet(deferred) \/ Terminal(f)

ScanInv ==
    /\ DiskOK /\ CursorOK /\ OrderOK /\ ListsOK /\ TimersOK /\ ModeOK /\ BudgetOK
    /\ PendingOK /\ Registry \in Registries /\ PartOK /\ Kept

\* What a step leaves alone stays right.
LEMMA PartsStay ==
  ASSUME ScanInv
  PROVE  /\ UNCHANGED disk => DiskOK'
         /\ UNCHANGED <<cursor, size>> => CursorOK'
         /\ UNCHANGED statOrder => OrderOK'
         /\ UNCHANGED <<refusals, attempts, rest, cool>> => TimersOK'
         /\ UNCHANGED registry => (Registry \in Registries)'
         /\ UNCHANGED mode /\ UNCHANGED rediscover => ModeOK'
         /\ UNCHANGED <<work, opens, portions>> => BudgetOK'
         /\ UNCHANGED pendingPortions => PendingOK'
         /\ UNCHANGED cursor => Known' = Known
<1>1. UNCHANGED disk => DiskOK'
  BY DEF ScanInv, DiskOK, disk
<1>2. UNCHANGED <<cursor, size>> => CursorOK'
  BY DEF ScanInv, CursorOK, Known
<1>3. UNCHANGED statOrder => OrderOK'
  BY DEF ScanInv, OrderOK
<1>4. UNCHANGED <<refusals, attempts, rest, cool>> => TimersOK'
  BY DEF ScanInv, TimersOK
<1>5. UNCHANGED registry => (Registry \in Registries)'
  BY DEF ScanInv, Registry, registry, Registries
<1>6. UNCHANGED mode /\ UNCHANGED rediscover => ModeOK'
  BY DEF ScanInv, ModeOK, mode
<1>7. UNCHANGED <<work, opens, portions>> => BudgetOK'
  BY DEF ScanInv, BudgetOK
<1>8. UNCHANGED cursor => Known' = Known
  BY DEF Known
<1>9. UNCHANGED pendingPortions => PendingOK'
  BY DEF ScanInv, PendingOK
<1> QED BY <1>1, <1>2, <1>3, <1>4, <1>5, <1>6, <1>7, <1>8, <1>9

\* No file is forgotten while the queues only grow.
LEMMA KeptStays ==
  ASSUME ScanInv, UNCHANGED <<cursor, attempts>>,
         ToSet(pending) \cup ToSet(deferred) \subseteq (ToSet(pending) \cup ToSet(deferred))'
  PROVE  Kept'
BY DEF ScanInv, Kept, Known, Unread, Terminal

\* So do the lists of files and directories.
LEMMA ListsStay ==
  ASSUME ScanInv, UNCHANGED <<cursor, discover, pending, deferred, parked>>
  PROVE  ListsOK'
BY DEF ScanInv, ListsOK, Known

\* And what is left to do in the running part.
LEMMA PartStays ==
  ASSUME ScanInv, UNCHANGED <<pc, queue, opens, work, registrations, pending, cursor>>
  PROVE  PartOK'
BY DEF ScanInv, PartOK, Known

-----------------------------------------------------------------------------
\* A file grows: what was seen of it is still not more than there is.
LEMMA FileWriteKeeps ==
  ASSUME ScanInv, NEW f \in Files, Write(f)
  PROVE  ScanInv'
<1> USE DEF Write
<1>1. /\ UNCHANGED <<cursor, statOrder, refusals, attempts, rest, cool, discover, pending,
                     deferred, parked, pc, queue, opens, work, portions, registrations,
                     rediscover, pendingPortions>>
      /\ UNCHANGED registry /\ UNCHANGED mode
  BY DEF queues, registry, timers, tick
<1>2. DiskOK'
  <2>1. Kind(f) \in Providers
    BY DEF Kind, Providers
  <2>2. changed' \subseteq Providers
    BY <2>1 DEF ScanInv, DiskOK
  <2>3. writes' \in 0..MaxWrites /\ MaxSize \in Nat
    BY ScheduleAssumption DEF ScanInv, DiskOK
  <2>4. size' \in [Files -> 0..MaxSize]
    <3>1. size[f] + 1 \in 0..MaxSize
      BY <2>3 DEF ScanInv, DiskOK
    <3> QED BY <3>1 DEF ScanInv, DiskOK
  <2>5. age' \in [Files -> Ages]
    BY DEF ScanInv, DiskOK, Ages
  <2> QED BY <2>2, <2>3, <2>4, <2>5 DEF DiskOK
<1>3. CursorOK'
  <2>1. \A g \in Files : size[g] \in 0..MaxSize /\ size[g] <= size'[g]
    BY ScheduleAssumption DEF ScanInv, DiskOK
  <2>2. \A g \in Known : cursor[g].size \in 0..MaxSize
    BY DEF ScanInv, CursorOK, Known
  <2>3. \A g \in Known : cursor[g].size <= size'[g]
    <3> TAKE g \in Known
    <3>1. size'[g] \in 0..MaxSize /\ size[g] \in 0..MaxSize /\ size[g] <= size'[g] /\ g \in Files
      BY <1>2, <2>1 DEF DiskOK, Known
    <3>2. cursor[g].size <= size[g] /\ cursor[g].size \in 0..MaxSize
      BY <2>2 DEF ScanInv, CursorOK
    <3>3. MaxSize \in Nat
      BY ScheduleAssumption
    <3> QED BY <3>1, <3>2, <3>3
  <2> QED BY <1>1, <2>3 DEF ScanInv, CursorOK, Known
<1>4. OrderOK' /\ TimersOK' /\ (Registry \in Registries)' /\ ModeOK' /\ BudgetOK' /\ PendingOK'
  <2> HIDE DEF Write
  <2> QED BY <1>1, PartsStay
<1>5. ListsOK' /\ PartOK'
  <2> HIDE DEF Write
  <2> QED BY <1>1, ListsStay, PartStays
<1>6. Kept'
  <2> HIDE DEF Write
  <2> QED BY <1>1, KeptStays
<1> QED BY <1>2, <1>3, <1>4, <1>5, <1>6 DEF ScanInv

\* Nothing is known or queued at first.
LEMMA ScanInitial ==
  ASSUME Init
  PROVE  ScanInv
<1> USE DEF Init
<1>1. Order \in Seq(Files) /\ ToSet(Order) = Files /\ IsInjective(Order)
  BY ScheduleAssumption DEF Files
<1>2. DiskOK
  BY ScheduleAssumption DEF DiskOK, Ages, Files, Providers
<1>3. Known = {}
  BY DEF Known
<1>4. CursorOK /\ Kept
  BY <1>3 DEF CursorOK, Kept
<1>5. OrderOK
  BY <1>1 DEF OrderOK
<1>6. ListsOK
  BY <1>3 DEF ListsOK, ToSet
<1>7. TimersOK /\ ModeOK /\ BudgetOK /\ PendingOK /\ PartOK
  <2>1. MaxRefusals \in Nat /\ MaxRetries \in Nat /\ Long \in Nat /\ FilesCatchUp \in Nat
    BY ScheduleAssumption
  <2>2. TimersOK
    BY <2>1 DEF TimersOK
  <2>3. ModeOK /\ PartOK
    BY DEF ModeOK, PartOK, Providers
  <2>4. BudgetOK /\ PendingOK
    BY <2>1 DEF BudgetOK, PendingOK
  <2> QED BY <2>2, <2>3, <2>4
<1>8. Registry \in Registries
  <2> DEFINE e == [list |-> <<>>, today |-> 0, recent |-> 0]
  <2>1. e \in [list : Seq(Files \X BOOLEAN), today : Nat, recent : Nat] /\ e.list = <<>>
        /\ e.today = 0 /\ e.recent = 0
    OBVIOUS
  <2>2. Registry = e
    BY DEF Registry
  <2>3. Delimits(e)
    <3>1. Len(e.list) = 0
      BY <2>1
    <3> QED BY <2>1, <3>1 DEF Delimits
  <2> HIDE DEF e
  <2> QED BY <2>1, <2>2, <2>3 DEF Registries
<1> QED BY <1>2, <1>4, <1>5, <1>6, <1>7, <1>8 DEF ScanInv

\* A tick may handle one file at least.
LEMMA BudgetIs ==
  ASSUME ScanInv
  PROVE  FileBudget \in 1..FilesCatchUp /\ FilesCatchUp \in Nat
BY ScheduleAssumption DEF FileBudget

\* A registry that is written down is one.
LEMMA RegistryWritten ==
  ASSUME NEW r \in Registries, SetRegistry(r)
  PROVE  (Registry \in Registries)' /\ registrations' = r.list
<1>1. r.list \in Seq(Files \X BOOLEAN) /\ r.today \in Nat /\ r.recent \in Nat
      /\ r \in [list : Seq(Files \X BOOLEAN), today : Nat, recent : Nat]
  BY RegistryIs DEF Registries
<1>2. Registry' = [list |-> r.list, today |-> r.today, recent |-> r.recent]
  BY DEF Registry, SetRegistry
<1>3. r = [list |-> r.list, today |-> r.today, recent |-> r.recent]
  BY <1>1
<1>4. Registry' = r
  BY <1>2, <1>3
<1>5. (Registry \in Registries)' <=> Registry' \in Registries'
  OBVIOUS
<1>6. Registries' = Registries
  BY DEF Registries, Delimits
<1> QED BY <1>4, <1>5, <1>6 DEF SetRegistry

\* Time runs down and not below zero.
LEMMA ElapseKeeps ==
  ASSUME ScanInv, NEW time, Elapse(time), UNCHANGED <<attempts, refusals>>
  PROVE  TimersOK'
<1>1. Long \in Nat
  BY ScheduleAssumption
<1>2. rest \in [Files -> 0..Long] /\ cool \in [Files -> 0..Long]
  BY DEF ScanInv, TimersOK
<1>3. \A n \in 0..Long : Monus(n, 1) \in 0..Long
  BY <1>1 DEF Monus
<1>4. \A f \in Files : rest[f] \in 0..Long /\ cool[f] \in 0..Long
  BY <1>2
<1>5. rest' \in [Files -> 0..Long] /\ cool' \in [Files -> 0..Long]
  BY <1>3, <1>4 DEF Elapse
<1> QED BY <1>5 DEF ScanInv, TimersOK

\* A tick begins: perhaps with the directories, and the paths the restored state knows.
LEMMA BeginTickKeeps ==
  ASSUME ScanInv, NEW time, BeginTick(time)
  PROVE  ScanInv'
<1>1. /\ UNCHANGED <<attempts, refusals, cursor, size, statOrder, pending, deferred>>
      /\ UNCHANGED disk /\ UNCHANGED mode
      /\ rediscover' = FALSE /\ Elapse(time) /\ pc' = "discover" /\ opens' = 0
      /\ portions' = 0 /\ pendingPortions' = 0 /\ work' = FileBudget /\ parked' = <<>>
      /\ queue' = [i \in 1..DirBudget |-> i]
  BY DEF BeginTick, disk
<1>2. DiskOK' /\ CursorOK' /\ OrderOK' /\ Known' = Known
  BY <1>1, PartsStay
<1>3. TimersOK'
  BY <1>1, ElapseKeeps
<1>4. ModeOK'
  BY <1>1 DEF ScanInv, ModeOK, mode
<1>5. BudgetOK' /\ PendingOK'
  BY <1>1, BudgetIs DEF BudgetOK, PendingOK
<1>6. PartOK'
  <2>1. DirBudget \in Nat
    BY ScheduleAssumption
  <2>2. queue' \in Seq(Nat)
    BY <1>1, <2>1
  <2> QED BY <1>1, <2>2 DEF PartOK
<1>7. /\ (Registry \in Registries)'
      /\ discover' \in Seq(Providers)
  <2>1. CASE UNCHANGED <<discover, registry>>
    BY <2>1, PartsStay DEF ScanInv, ListsOK
  <2>2. CASE QueueRoots
    <3>1. discover' \in Seq(Providers)
      BY <2>2 DEF QueueRoots, Providers
    <3> DEFINE pairs == [i \in 1..Cardinality(Stored0) |-> <<SetToSeq(Stored0)[i], FALSE>>]
               rests == {f \in Files : rest'[f] > 0}
    <3>2. pairs \in Seq(Files \X BOOLEAN)
      <4>1. IsFiniteSet(Stored0) /\ Stored0 \subseteq Files
        BY FilesFinite, FS_Subset, ScheduleAssumption DEF Files
      <4>2. SetToSeq(Stored0) \in [1..Cardinality(Stored0) -> Stored0] /\ Cardinality(Stored0) \in Nat
        BY <4>1, ListedIs
      <4> DEFINE n == Cardinality(Stored0)  item(i) == <<SetToSeq(Stored0)[i], FALSE>>
      <4>3. \A i \in 1..n : item(i) \in Files \X BOOLEAN
        BY <4>1, <4>2
      <4>4. n \in Nat /\ pairs = [i \in 1..n |-> item(i)]
        BY <4>2
      <4> HIDE DEF n, item, pairs
      <4> QED BY <4>3, <4>4
    <3> HIDE DEF pairs, rests
    <3>3. Registry \in Registries
      BY DEF ScanInv
    <3>4. QueueAll(pairs, Registry, rests) \in Registries
      BY <3>2, <3>3, QueueAllKeeps
    <3>5. PICK r \in Registries : SetRegistry(r)
      BY <2>2, <3>3, <3>4 DEF QueueRoots, pairs, rests
    <3> QED BY <3>1, <3>5, RegistryWritten
  <2> QED BY <2>1, <2>2 DEF BeginTick
<1>8. ListsOK'
  BY <1>1, <1>2, <1>7 DEF ScanInv, ListsOK
<1>9. Kept'
  BY <1>1, KeptStays
<1> QED BY <1>2, <1>3, <1>4, <1>5, <1>6, <1>7, <1>8, <1>9 DEF ScanInv

\* A directory is looked into: known files join the queue, others are registered.
LEMMA DiscoverKeeps ==
  ASSUME ScanInv, Discover
  PROVE  ScanInv'
<1> DEFINE there == IF Head(discover) \in changed
                    THEN {f \in FilesOf(Head(discover)) : size[f] > 0}
                    ELSE {}
           seen == (there \cap Known) \ (ToSet(pending) \cup Resting)
           others == there \ Known
           known == SetToSeq(seen)
           new   == SetToSeq(others)
           pairs == [i \in DOMAIN new |-> <<new[i], TRUE>>]
<1>1. /\ pc = "discover" /\ discover # <<>> /\ queue # <<>>
      /\ queue' = Tail(queue) /\ discover' = Tail(discover)
      /\ changed' = changed \ {Head(discover)}
      /\ UNCHANGED <<size, age, writes, attempts, refusals, cursor, statOrder, deferred, rest,
                     cool, rediscover, pc, work, opens, portions, pendingPortions, parked>>
      /\ UNCHANGED mode
      /\ pending' = pending \o known
      /\ SetRegistry(QueueAll(pairs, Registry, Resting))
  BY DEF Discover
<1>2. there \subseteq Files
  BY DEF FilesOf, Files
<1> HIDE DEF there
<1>3. IsFiniteSet(seen) /\ IsFiniteSet(others) /\ seen \subseteq Known /\ seen \subseteq Files
      /\ others \subseteq Files
  <2>1. seen \subseteq Files /\ others \subseteq Files /\ seen \subseteq Known
    BY <1>2
  <2> QED BY <2>1, FilesFinite, FS_Subset
<1> HIDE DEF seen, others
<1>4. known \in Seq(Files) /\ ToSet(known) \subseteq Known
  <2>1. known \in [1..Cardinality(seen) -> seen] /\ Cardinality(seen) \in Nat
    BY <1>3, ListedIs
  <2> HIDE DEF known
  <2>2. known \in Seq(Files)
    BY <1>3, <2>1
  <2> QED BY <1>3, <2>1, <2>2 DEF ToSet
<1>5. pairs \in Seq(Files \X BOOLEAN)
  <2> DEFINE n == Cardinality(others)  item(i) == <<new[i], TRUE>>
  <2>1. new \in [1..n -> others] /\ n \in Nat
    BY <1>3, ListedIs
  <2> HIDE DEF new, n
  <2>2. \A i \in 1..n : item(i) \in Files \X BOOLEAN
    BY <1>3, <2>1
  <2>3. pairs = [i \in 1..n |-> item(i)]
    BY <2>1
  <2> HIDE DEF item, pairs
  <2> QED BY <2>1, <2>2, <2>3
<1> HIDE DEF known, pairs
<1>6. OrderOK' /\ CursorOK' /\ TimersOK' /\ ModeOK' /\ BudgetOK' /\ PendingOK' /\ Known' = Known
  BY <1>1, PartsStay
<1>7. DiskOK'
  BY <1>1 DEF ScanInv, DiskOK
<1>8. (Registry \in Registries)'
  <2>1. Registry \in Registries
    BY DEF ScanInv
  <2>2. QueueAll(pairs, Registry, Resting) \in Registries
    BY <1>5, <2>1, QueueAllKeeps
  <2> QED BY <1>1, <2>2, RegistryWritten
<1>9. pending' \in Seq(Files) /\ ToSet(pending') = ToSet(pending) \cup ToSet(known)
  <2>1. pending \in Seq(Files)
    BY DEF ScanInv, ListsOK
  <2> QED BY <1>1, <1>4, <2>1, ConcatSet
<1>10. ListsOK'
  <2>1. discover' \in Seq(Providers)
    <3>1. discover \in Seq(Providers)
      BY DEF ScanInv, ListsOK
    <3> QED BY <1>1, <3>1, TailSet
  <2> QED BY <1>1, <1>4, <1>6, <1>9, <2>1 DEF ScanInv, ListsOK
<1>11. PartOK'
  <2>1. queue \in Seq(Nat) /\ opens = 0
    BY <1>1 DEF ScanInv, PartOK
  <2>2. queue' \in Seq(Nat)
    BY <1>1, <2>1, TailSet
  <2> QED BY <1>1, <2>1, <2>2 DEF PartOK
<1>12. Kept'
  BY <1>1, <1>9, KeptStays
<1> QED BY <1>6, <1>7, <1>8, <1>10, <1>11, <1>12 DEF ScanInv

\* There are as many registrations as rounds to come.
LEMMA BeginRegisterKeeps ==
  ASSUME ScanInv, BeginRegister
  PROVE  ScanInv'
<1> DEFINE budget == IF pending = <<>> /\ recentCount = 0 THEN work ELSE (work + 1) \div 2
           n == Least(Len(registrations), budget)
<1>1. /\ pc = "discover" /\ pc' = "register" /\ queue' = [i \in 1..n |-> i]
      /\ UNCHANGED <<refusals, cursor, size, statOrder, attempts, rest, cool, rediscover,
                     discover, pending, deferred, work, opens, portions, pendingPortions, parked,
                     registrations>>
      /\ UNCHANGED disk /\ UNCHANGED registry /\ UNCHANGED mode
  BY DEF BeginRegister, disk, queues, registry, timers
<1>2. DiskOK' /\ CursorOK' /\ OrderOK' /\ TimersOK' /\ (Registry \in Registries)' /\ ModeOK'
      /\ BudgetOK' /\ PendingOK'
  BY <1>1, PartsStay
<1>3. ListsOK' /\ Kept'
  BY <1>1, ListsStay, KeptStays
<1>4. PartOK'
  <2>1. work \in Nat /\ FilesCatchUp \in Nat
    BY ScheduleAssumption DEF ScanInv, BudgetOK
  <2>2. budget \in Nat /\ budget <= work
    BY <2>1
  <2>3. Len(registrations) \in Nat
    BY DEF ScanInv, Registry, Registries
  <2> HIDE DEF budget
  <2>4. n \in Nat /\ n <= work /\ n <= Len(registrations)
    BY <2>1, <2>2, <2>3 DEF Least
  <2> HIDE DEF n
  <2>5. queue' \in Seq(Nat) /\ Len(queue') = n
    BY <1>1, <2>4
  <2>6. opens' = 0
    BY <1>1 DEF ScanInv, PartOK
  <2> QED BY <1>1, <2>4, <2>5, <2>6 DEF PartOK
<1> QED BY <1>2, <1>3, <1>4 DEF ScanInv

\* The first path is taken off the queue of registrations.
LEMMA WithoutFirstKeeps ==
  ASSUME ScanInv, registrations # <<>>
  PROVE  /\ WithoutFirst \in Registries /\ Len(WithoutFirst.list) = Len(registrations) - 1
         /\ Head(registrations) \in Files \X BOOLEAN
<1> DEFINE l == registrations  t == Tail(l)
           today == Monus(todayCount, 1)  recent == Monus(recentCount, 1)
           q == [list |-> t, today |-> today, recent |-> recent]
<1>1. /\ l \in Seq(Files \X BOOLEAN) /\ todayCount \in Nat /\ recentCount \in Nat
      /\ todayCount <= recentCount /\ recentCount <= Len(l) /\ Len(l) \in Nat
      /\ \A i \in 1..Len(l) : l[i][2] <=> i <= recentCount
  <2>1. Registry \in Registries
    BY DEF ScanInv
  <2>2. Registry.list = l /\ Registry.today = todayCount /\ Registry.recent = recentCount
    BY DEF Registry
  <2> QED BY <2>1, <2>2, RegistryIs
<1> DEFINE U == Files \X BOOLEAN
<1>2. l \in Seq(U) /\ l # <<>>
  BY <1>1
<1> HIDE DEF U
<1>3. /\ t \in Seq(U) /\ Len(t) = Len(l) - 1 /\ \A i \in 1..Len(t) : t[i] = l[i + 1]
      /\ Head(l) \in U
  BY <1>2, HeadTailProperties
<1>4. Len(l) >= 1
  BY <1>2, EmptySeq
<1> HIDE DEF l, t
<1>5. today \in Nat /\ recent \in Nat /\ today <= recent /\ recent <= Len(t)
  BY <1>1, <1>3, <1>4 DEF Monus
<1>6. ASSUME NEW i \in 1..Len(t) PROVE t[i][2] <=> i <= recent
  <2>1. i + 1 \in 1..Len(l) /\ t[i] = l[i + 1]
    BY <1>1, <1>3
  <2>2. i + 1 <= recentCount <=> i <= recent
    BY <1>1, <1>3 DEF Monus
  <2> QED BY <1>1, <2>1, <2>2
<1> HIDE DEF today, recent
<1>7. q.list = t /\ q.today = today /\ q.recent = recent
  OBVIOUS
<1>8. q \in [list : Seq(Files \X BOOLEAN), today : Nat, recent : Nat]
  BY <1>3, <1>5 DEF U
<1>9. WithoutFirst = q
  BY DEF WithoutFirst, q, t, l, today, recent
<1> HIDE DEF q
<1>10. q \in Registries
  BY <1>5, <1>6, <1>7, <1>8 DEF Registries, Delimits
<1> QED BY <1>3, <1>7, <1>9, <1>10 DEF U, l

\* A file that was just registered joins one of the two queues.
LEMMA EnqueueKeeps ==
  ASSUME ScanInv, NEW f \in Files, Enqueue(f)
  PROVE  /\ pending' \in Seq(Files) /\ deferred' \in Seq(Files)
         /\ ToSet(pending') \cup ToSet(deferred') = ToSet(pending) \cup ToSet(deferred) \cup {f}
<1>1. pending \in Seq(Files) /\ deferred \in Seq(Files)
  BY DEF ScanInv, ListsOK
<1>2. CASE catchUp /\ age[f] = 0
  <2>1. deferred' = Append(deferred, f) /\ pending' = pending
    BY <1>2 DEF Enqueue
  <2> QED BY <1>1, <2>1, AppendSet
<1>3. CASE ~(catchUp /\ age[f] = 0)
  <2> DEFINE later == {i \in DOMAIN pending : cursor[pending[i]].age < age[f]}
             place == IF later = {} THEN Len(pending) + 1
                      ELSE CHOOSE i \in later : \A j \in later : i <= j
  <2>1. deferred' = deferred /\ pending' = IF age[f] = 2 THEN InsertAt(pending, place, f)
                                                          ELSE Append(pending, f)
    BY <1>3 DEF Enqueue
  <2>2. later \subseteq 1..Len(pending)
    BY <1>1
  <2> HIDE DEF later
  <2>3. place \in 1..Len(pending) + 1
    <3>1. CASE later = {}
      BY <1>1, <3>1
    <3>2. CASE later # {}
      <4>1. later \in SUBSET Nat
        BY <2>2
      <4>2. \E i \in later : \A j \in later : i <= j
        BY <3>2, <4>1, FirstIs
      <4>3. place \in later
        BY <3>2, <4>2
      <4> HIDE DEF place
      <4>4. place \in 1..Len(pending)
        BY <2>2, <4>3
      <4>5. Len(pending) \in Nat
        BY <1>1
      <4> QED BY <4>4, <4>5
    <3> QED BY <3>1, <3>2
  <2> HIDE DEF place
  <2>4. /\ InsertAt(pending, place, f) \in Seq(Files)
        /\ ToSet(InsertAt(pending, place, f)) = ToSet(pending) \cup {f}
    BY <1>1, <2>3, InsertedSet
  <2>5. /\ Append(pending, f) \in Seq(Files)
        /\ ToSet(Append(pending, f)) = ToSet(pending) \cup {f}
    BY <1>1, AppendSet
  <2> QED BY <1>1, <2>1, <2>4, <2>5
<1> QED BY <1>2, <1>3

\* A path that Windows refuses fails once more, and rests.
LEMMA RefusedKeeps ==
  ASSUME ScanInv, NEW f \in Files, Refused(f)
  PROVE  /\ refusals' \in 0..MaxRefusals /\ attempts' \in [Files -> 0..MaxRetries]
         /\ rest' \in [Files -> 0..Long]
         /\ \A g \in Files : g # f => attempts'[g] = attempts[g]
         /\ \A g \in Files : Terminal(g) => attempts'[g] = MaxRetries
<1>1. MaxRefusals \in Nat /\ MaxRetries \in Nat /\ Long \in Nat \ {0}
  BY ScheduleAssumption
<1>2. refusals \in 0..MaxRefusals /\ attempts \in [Files -> 0..MaxRetries] /\ rest \in [Files -> 0..Long]
  BY DEF ScanInv, TimersOK
<1>3. refusals' \in 0..MaxRefusals
  BY <1>1, <1>2 DEF Refused
<1> DEFINE more == IF attempts[f] = MaxRetries THEN attempts[f] ELSE attempts[f] + 1
<1>4. more \in 0..MaxRetries /\ attempts' = [attempts EXCEPT ![f] = more]
  BY <1>1, <1>2 DEF Refused
<1> HIDE DEF more
<1>5. attempts' \in [Files -> 0..MaxRetries] /\ \A g \in Files : g # f => attempts'[g] = attempts[g]
  BY <1>2, <1>4
<1>6. \A g \in Files : Terminal(g) => attempts'[g] = MaxRetries
  BY <1>2, <1>4, <1>5 DEF Terminal, more
<1> DEFINE wait == IF attempts'[f] = MaxRetries THEN Long ELSE 1
<1>7. wait \in 0..Long /\ rest' = [rest EXCEPT ![f] = wait]
  BY <1>1 DEF Refused
<1> HIDE DEF wait
<1>8. rest' \in [Files -> 0..Long]
  BY <1>2, <1>7
<1> QED BY <1>3, <1>5, <1>6, <1>8

\* A path is registered, or Windows refuses it and it goes back into the queue.
LEMMA RegisterFileKeeps ==
  ASSUME ScanInv, NEW f \in Files, NEW flag \in BOOLEAN, NEW left \in Registries,
         RegisterFile(f, flag, left), UNCHANGED <<size, statOrder, discover, parked, cool>>
  PROVE  /\ CursorOK' /\ TimersOK' /\ Kept' /\ ListsOK'
         /\ (Registry \in Registries)' /\ Len(left.list) <= Len(registrations')
<1> DEFINE read == IF f \in Stored0 THEN Least(Size0[f], size[f]) ELSE 0
           new == [size |-> size[f], offset |-> read, age |-> age[f]]
<1>0. Len(left.list) \in Nat
  BY RegistryIs
<1>1. CASE Refused(f) /\ SetRegistry(Queued(left, f, flag, {g \in Files : rest'[g] > 0}))
           /\ UNCHANGED <<cursor, pending, deferred>>
  <2>1. CursorOK' /\ ListsOK' /\ Known' = Known
    BY <1>1, PartsStay, ListsStay DEF ScanInv, ListsOK
  <2>2. TimersOK'
    BY <1>1, RefusedKeeps DEF ScanInv, TimersOK
  <2>3. Kept'
    <3>1. \A g \in Known : g \in Files /\ Terminal(g)' <=> g \in Files /\ attempts'[g] = MaxRetries
      BY DEF Terminal
    <3>2. \A g \in Files : Terminal(g) => attempts'[g] = MaxRetries
      BY <1>1, RefusedKeeps
    <3> QED BY <1>1, <2>1, <3>1, <3>2 DEF ScanInv, Kept, Unread, Terminal, Known
  <2> DEFINE rests == {g \in Files : rest'[g] > 0}  r == Queued(left, f, flag, rests)
  <2> HIDE DEF rests
  <2>4. r \in Registries /\ Len(left.list) <= Len(r.list)
    BY QueuedKeeps
  <2>5. SetRegistry(r)
    BY <1>1 DEF rests
  <2> HIDE DEF r
  <2>6. (Registry \in Registries)' /\ registrations' = r.list
    BY <2>4, <2>5, RegistryWritten
  <2> QED BY <2>1, <2>2, <2>3, <2>4, <2>6
<1>2. CASE /\ attempts' = [attempts EXCEPT ![f] = 0]
           /\ cursor' = [cursor EXCEPT ![f] = new]
           /\ SetRegistry(left)
           /\ IF size[f] > read THEN Enqueue(f) ELSE UNCHANGED <<pending, deferred>>
           /\ UNCHANGED <<rest, refusals>>
  <2>1. size[f] \in 0..MaxSize /\ MaxSize \in Nat /\ age[f] \in Ages /\ Size0[f] \in 0..MaxSize
    BY ScheduleAssumption DEF ScanInv, DiskOK, Files
  <2>2. read \in 0..MaxSize /\ read <= size[f] /\ (~(size[f] > read) => read = size[f])
    BY <2>1 DEF Least
  <2> HIDE DEF read
  <2>3. new \in [size : 0..MaxSize, offset : 0..MaxSize, age : Ages]
        /\ new.size = size[f] /\ new.offset = read
    BY <2>1, <2>2
  <2>4. new # None
    BY <2>3, ScheduleAssumption DEF Ages
  <2> HIDE DEF new
  <2>5. cursor \in [Files -> [size : 0..MaxSize, offset : 0..MaxSize, age : Ages] \cup {None}]
    BY DEF ScanInv, CursorOK
  <2>6. /\ cursor' \in [Files -> [size : 0..MaxSize, offset : 0..MaxSize, age : Ages] \cup {None}]
        /\ cursor'[f] = new /\ \A g \in Files : g # f => cursor'[g] = cursor[g]
    BY <1>2, <2>3, <2>5
  <2>7. Known' = Known \cup {f}
    BY <2>4, <2>6 DEF Known
  <2>8. CursorOK'
    <3>1. \A g \in Known' : cursor'[g].offset <= cursor'[g].size /\ cursor'[g].size <= size[g]
      <4> TAKE g \in Known'
      <4>1. CASE g = f
        BY <2>1, <2>2, <2>3, <2>6, <4>1
      <4>2. CASE g # f
        BY <2>6, <2>7, <4>2 DEF ScanInv, CursorOK, Known
      <4> QED BY <4>1, <4>2
    <3> QED BY <2>6, <3>1 DEF CursorOK, Known
  <2>9. TimersOK'
    <3>1. attempts \in [Files -> 0..MaxRetries] /\ MaxRetries \in Nat
      BY ScheduleAssumption DEF ScanInv, TimersOK
    <3>2. attempts' \in [Files -> 0..MaxRetries]
      BY <1>2, <3>1
    <3> QED BY <1>2, <3>2 DEF ScanInv, TimersOK
  <2>10. /\ pending' \in Seq(Files) /\ deferred' \in Seq(Files)
         /\ IF size[f] > read
            THEN ToSet(pending') \cup ToSet(deferred') = ToSet(pending) \cup ToSet(deferred) \cup {f}
            ELSE ToSet(pending') \cup ToSet(deferred') = ToSet(pending) \cup ToSet(deferred)
    <3>1. CASE size[f] > read
      BY <1>2, <3>1, EnqueueKeeps
    <3>2. CASE ~(size[f] > read)
      BY <1>2, <3>2 DEF ScanInv, ListsOK
    <3> QED BY <3>1, <3>2
  <2>11. ListsOK'
    <3>1. ToSet(pending') \cup ToSet(deferred') \subseteq Known'
      BY <2>7, <2>10 DEF ScanInv, ListsOK
    <3>2. discover' \in Seq(Providers) /\ parked' \in Seq(Files \X BOOLEAN)
      BY DEF ScanInv, ListsOK
    <3> QED BY <2>10, <3>1, <3>2 DEF ListsOK
  <2>12. Kept'
    <3> SUFFICES ASSUME NEW g \in Known', cursor'[g].size # cursor'[g].offset
                 PROVE  g \in ToSet(pending') \cup ToSet(deferred') \/ attempts'[g] = MaxRetries
      BY DEF Kept, Unread, Terminal, Known
    <3>1. CASE g = f
      BY <2>2, <2>3, <2>6, <2>10, <3>1
    <3>2. CASE g # f
      <4>1. g \in Known /\ Unread(g)
        BY <2>6, <2>7, <3>2 DEF Unread, Known
      <4>2. g \in ToSet(pending) \cup ToSet(deferred) \/ Terminal(g)
        BY <4>1 DEF ScanInv, Kept
      <4>3. attempts'[g] = attempts[g]
        BY <1>2, <3>2, <4>1 DEF ScanInv, TimersOK, Known
      <4> QED BY <2>10, <4>2, <4>3 DEF Terminal
    <3> QED BY <3>1, <3>2
  <2>13. (Registry \in Registries)' /\ registrations' = left.list
    BY <1>2, RegistryWritten
  <2> QED BY <1>0, <2>8, <2>9, <2>11, <2>12, <2>13
<1> QED BY <1>1, <1>2 DEF RegisterFile

\* A round of process_registrations.
LEMMA RegisterKeeps ==
  ASSUME ScanInv, Register
  PROVE  ScanInv'
<1> DEFINE f == Head(registrations)[1]
           flag == Head(registrations)[2]
<1>1. /\ pc = "register" /\ queue # <<>> /\ queue' = Tail(queue)
      /\ UNCHANGED <<size, statOrder, discover, cool, rediscover, pc, opens, portions,
                     pendingPortions>>
      /\ UNCHANGED disk /\ UNCHANGED mode
      /\ \/ /\ parked' = Append(parked, <<f, flag>>)
            /\ SetRegistry(WithoutFirst)
            /\ UNCHANGED <<cursor, pending, deferred, attempts, rest, refusals, work>>
         \/ /\ work' = work - 1 /\ UNCHANGED parked
            /\ RegisterFile(f, flag, WithoutFirst)
  BY DEF Register, disk
<1>2. /\ queue \in Seq(Nat) /\ opens = 0 /\ Len(queue) <= work /\ Len(queue) <= Len(registrations)
  BY <1>1 DEF ScanInv, PartOK
<1>3. queue' \in Seq(Nat) /\ Len(queue') = Len(queue) - 1 /\ Len(queue) >= 1 /\ Len(queue) \in Nat
  <2>1. Len(queue) \in Nat
    BY <1>2
  <2> QED BY <1>1, <1>2, <2>1, TailSet
<1>4. registrations # <<>> /\ Len(registrations) \in Nat
  <2>1. registrations \in Seq(Files \X BOOLEAN)
    BY DEF ScanInv, Registry, Registries
  <2>2. Len(registrations) \in Nat
    BY <2>1
  <2>3. Len(registrations) >= 1
    BY <1>2, <1>3, <2>2
  <2> QED BY <2>1, <2>2, <2>3
<1>5. /\ WithoutFirst \in Registries /\ Len(WithoutFirst.list) = Len(registrations) - 1
      /\ f \in Files /\ flag \in BOOLEAN /\ <<f, flag>> \in Files \X BOOLEAN
  <2>1. /\ WithoutFirst \in Registries /\ Len(WithoutFirst.list) = Len(registrations) - 1
        /\ Head(registrations) \in Files \X BOOLEAN
    BY <1>4, WithoutFirstKeeps
  <2>2. f \in Files /\ flag \in BOOLEAN
    BY <2>1
  <2> QED BY <2>1, <2>2
<1> HIDE DEF f, flag
<1>6. DiskOK' /\ OrderOK' /\ ModeOK' /\ PendingOK'
  BY <1>1, PartsStay
<1>w. work \in Nat /\ FilesCatchUp \in Nat /\ work <= FilesCatchUp
  BY ScheduleAssumption DEF ScanInv, BudgetOK
<1>7. BudgetOK'
  BY <1>1, <1>2, <1>3, <1>w DEF ScanInv, BudgetOK
<1>8. CASE /\ parked' = Append(parked, <<f, flag>>)
           /\ SetRegistry(WithoutFirst)
           /\ UNCHANGED <<cursor, pending, deferred, attempts, rest, refusals, work>>
  <2>1. CursorOK' /\ TimersOK' /\ Known' = Known
    BY <1>1, <1>8, PartsStay
  <2>2. Kept'
    BY <1>8, KeptStays
  <2>3. ListsOK'
    <3> DEFINE e == <<f, flag>>  U == Files \X BOOLEAN
    <3>1. parked \in Seq(U) /\ e \in U
      BY <1>5 DEF ScanInv, ListsOK
    <3> HIDE DEF e, U
    <3>2. Append(parked, e) \in Seq(U)
      BY <3>1, AppendSet
    <3>3. parked' \in Seq(Files \X BOOLEAN)
      BY <1>8, <3>2 DEF e, U
    <3> QED BY <1>1, <1>8, <2>1, <3>3 DEF ScanInv, ListsOK
  <2>4. (Registry \in Registries)' /\ registrations' = WithoutFirst.list
    BY <1>5, <1>8, RegistryWritten
  <2>5. PartOK'
    <3>1. Len(queue') <= work' /\ Len(queue') <= Len(registrations')
      BY <1>2, <1>3, <1>4, <1>5, <1>8, <1>w, <2>4
    <3> QED BY <1>1, <1>2, <1>3, <3>1 DEF PartOK
  <2> QED BY <1>6, <1>7, <2>1, <2>2, <2>3, <2>4, <2>5 DEF ScanInv
<1>9. CASE /\ work' = work - 1 /\ UNCHANGED parked
           /\ RegisterFile(f, flag, WithoutFirst)
  <2>1. /\ CursorOK' /\ TimersOK' /\ Kept' /\ ListsOK'
        /\ (Registry \in Registries)' /\ Len(WithoutFirst.list) <= Len(registrations')
    BY <1>1, <1>5, <1>9, RegisterFileKeeps
  <2>2. Len(registrations') \in Nat
    BY <2>1 DEF Registry, Registries
  <2>3. PartOK'
    <3>1. Len(queue') <= work' /\ Len(queue') <= Len(registrations')
      BY <1>2, <1>3, <1>4, <1>5, <1>9, <1>w, <2>1, <2>2
    <3> QED BY <1>1, <1>2, <1>3, <3>1 DEF PartOK
  <2> QED BY <1>6, <1>7, <2>1, <2>3 DEF ScanInv
<1> QED BY <1>1, <1>8, <1>9

\* The paths that were not due return, and the queue is sorted: no file leaves it.
LEMMA EndRegisterKeeps ==
  ASSUME ScanInv, EndRegister
  PROVE  ScanInv'
<1> DEFINE of(a) == Filter(pending, Aged(Known, a))
<1>1. /\ pc = "register" /\ pc' = "hot" /\ parked' = <<>>
      /\ SetRegistry(QueueAll(parked, Registry, Resting))
      /\ pending' = IF catchUp THEN of(2) \o of(1) \o of(0) ELSE pending
      /\ UNCHANGED <<attempts, refusals, cursor, size, statOrder, discover, deferred, rest, cool,
                     rediscover, work, opens, portions, pendingPortions, queue>>
      /\ UNCHANGED disk /\ UNCHANGED mode
  BY DEF EndRegister, disk
<1>2. DiskOK' /\ CursorOK' /\ OrderOK' /\ TimersOK' /\ ModeOK' /\ BudgetOK' /\ PendingOK'
      /\ Known' = Known
  BY <1>1, PartsStay
<1>3. (Registry \in Registries)'
  <2>1. Registry \in Registries /\ parked \in Seq(Files \X BOOLEAN)
    BY DEF ScanInv, ListsOK
  <2>2. QueueAll(parked, Registry, Resting) \in Registries
    BY <2>1, QueueAllKeeps
  <2> QED BY <1>1, <2>2, RegistryWritten
<1>4. pending \in Seq(Files) /\ ToSet(pending) \subseteq Known
  BY DEF ScanInv, ListsOK
<1>5. ASSUME NEW a PROVE of(a) \in Seq(Files) /\ ToSet(of(a)) = ToSet(pending) \cap Aged(Known, a)
  BY <1>4, FilterIs
<1> HIDE DEF of
<1>6. /\ (of(2) \o of(1)) \o of(0) \in Seq(Files)
      /\ ToSet((of(2) \o of(1)) \o of(0)) = ToSet(of(2)) \cup ToSet(of(1)) \cup ToSet(of(0))
  <2>1. of(2) \in Seq(Files) /\ of(1) \in Seq(Files) /\ of(0) \in Seq(Files)
    BY <1>5
  <2>2. of(2) \o of(1) \in Seq(Files) /\ ToSet(of(2) \o of(1)) = ToSet(of(2)) \cup ToSet(of(1))
    BY <2>1, ConcatSet
  <2> DEFINE t == of(2) \o of(1)
  <2> HIDE DEF t
  <2>3. t \o of(0) \in Seq(Files) /\ ToSet(t \o of(0)) = ToSet(t) \cup ToSet(of(0))
    <3>1. t \in Seq(Files)
      BY <2>2 DEF t
    <3> QED BY <2>1, <3>1, ConcatSet
  <2> QED BY <2>2, <2>3 DEF t
<1>7. ToSet(pending) = ToSet(of(2)) \cup ToSet(of(1)) \cup ToSet(of(0))
  <2>1. Known = Aged(Known, 0) \cup Aged(Known, 1) \cup Aged(Known, 2)
    <3>1. \A f \in Known : cursor[f].age \in 0..2
      BY DEF ScanInv, CursorOK, Known, Ages
    <3>2. \A f \in Known : cursor[f].age = 0 \/ cursor[f].age = 1 \/ cursor[f].age = 2
      BY <3>1
    <3> QED BY <3>2 DEF Aged
  <2> QED BY <1>4, <1>5, <2>1
<1>8. pending' \in Seq(Files) /\ ToSet(pending') = ToSet(pending)
  BY <1>1, <1>4, <1>6, <1>7
<1>9. ListsOK'
  BY <1>1, <1>2, <1>8 DEF ScanInv, ListsOK
<1>10. Kept'
  BY <1>1, <1>8, KeptStays
<1>11. PartOK'
  BY <1>1 DEF ScanInv, PartOK
<1> QED BY <1>2, <1>3, <1>9, <1>10, <1>11 DEF ScanInv

\* A file that is looked at stays known; nothing else is forgotten or counted anew.
LEMMA ScanKeeps ==
  ASSUME ScanInv, NEW f \in Known, Scan(f), UNCHANGED size, work > 0, opens < FilesCatchUp
  PROVE  /\ CursorOK' /\ OrderOK' /\ TimersOK' /\ BudgetOK' /\ Known' = Known
         /\ work' = work - 1 /\ portions' - portions \in Nat
         /\ \A g \in Files : g # f => cursor'[g] = cursor[g] /\ attempts'[g] = attempts[g]
<1> DEFINE more == Least(size[f] - cursor[f].offset, ReadBudget)
           new == [size |-> size[f], offset |-> cursor[f].offset + more, age |-> age[f]]
<1>f. f \in Files
  BY DEF Known
<1>1. /\ size[f] \in 0..MaxSize /\ age[f] \in Ages /\ MaxSize \in Nat /\ ReadBudget \in Nat
      /\ cursor[f] \in [size : 0..MaxSize, offset : 0..MaxSize, age : Ages]
      /\ cursor[f].offset <= cursor[f].size /\ cursor[f].size <= size[f]
  <2>1. size[f] \in 0..MaxSize /\ age[f] \in Ages /\ MaxSize \in Nat /\ ReadBudget \in Nat
    BY <1>f, ScheduleAssumption DEF ScanInv, DiskOK
  <2>2. cursor[f] \in [size : 0..MaxSize, offset : 0..MaxSize, age : Ages]
    BY DEF ScanInv, CursorOK, Known
  <2> QED BY <2>1, <2>2 DEF ScanInv, CursorOK
<1>2. cursor[f].offset \in 0..MaxSize /\ cursor[f].size \in 0..MaxSize
  BY <1>1
<1>3. more \in Nat /\ cursor[f].offset + more \in 0..MaxSize /\ cursor[f].offset + more <= size[f]
  BY <1>1, <1>2 DEF Least
<1>4. /\ new \in [size : 0..MaxSize, offset : 0..MaxSize, age : Ages]
      /\ new.size = size[f] /\ new.offset <= size[f] /\ new # None
  <2>1. new \in [size : 0..MaxSize, offset : 0..MaxSize, age : Ages]
    BY <1>1, <1>3
  <2> QED BY <1>3, <2>1, ScheduleAssumption DEF Ages
<1>5. work' = work - 1 /\ work \in 0..FilesCatchUp /\ opens \in 0..FilesCatchUp /\ portions \in Nat
      /\ FilesCatchUp \in Nat
  BY ScheduleAssumption DEF Scan, ScanInv, BudgetOK
<1>6. OrderOK'
  <2>1. statOrder \in Seq(Files) /\ ToSet(statOrder) = Files /\ IsInjective(statOrder)
    BY DEF ScanInv, OrderOK
  <2>2. LET t == Append(RemoveAt(statOrder, CHOOSE i \in DOMAIN statOrder : statOrder[i] = f), f)
        IN  t \in Seq(Files) /\ ToSet(t) = Files /\ IsInjective(t)
    BY <1>f, <2>1, OrderKept
  <2>3. statOrder' = Append(RemoveAt(statOrder, CHOOSE i \in DOMAIN statOrder : statOrder[i] = f), f)
    BY DEF Scan
  <2> QED BY <2>2, <2>3 DEF OrderOK
<1>7. cursor \in [Files -> [size : 0..MaxSize, offset : 0..MaxSize, age : Ages] \cup {None}]
      /\ attempts \in [Files -> 0..MaxRetries] /\ MaxRetries \in Nat
  BY ScheduleAssumption DEF ScanInv, CursorOK, TimersOK
<1>c. cool' \in [Files -> 0..Long]
  <2> DEFINE wait == IF cursor'[f].age > 0 THEN 1 ELSE Long
  <2>1. Long \in Nat \ {0} /\ cool \in [Files -> 0..Long]
    BY ScheduleAssumption DEF ScanInv, TimersOK
  <2>2. wait \in 0..Long /\ cool' = [cool EXCEPT ![f] = wait]
    BY <2>1 DEF Scan
  <2> HIDE DEF wait
  <2> QED BY <2>1, <2>2
<1>8. CASE Refused(f) /\ UNCHANGED <<cursor, opens, portions>>
  <2>1. CursorOK' /\ Known' = Known
    BY <1>8, PartsStay
  <2>2. BudgetOK' /\ portions' - portions \in Nat
    BY <1>5, <1>8 DEF BudgetOK
  <2>3. refusals' \in 0..MaxRefusals /\ attempts' \in [Files -> 0..MaxRetries]
        /\ rest' \in [Files -> 0..Long]
        /\ \A g \in Files : g # f => attempts'[g] = attempts[g]
    BY <1>f, <1>8, RefusedKeeps
  <2> QED BY <1>5, <1>6, <1>8, <1>c, <2>1, <2>2, <2>3 DEF TimersOK
<1>9. CASE /\ cursor' = [cursor EXCEPT ![f] =
                 [size |-> size[f], offset |-> @.offset + more, age |-> age[f]]]
           /\ portions' = portions + more
           /\ opens' = IF more > 0 THEN opens + 1 ELSE opens
           /\ attempts' = IF more > 0 THEN [attempts EXCEPT ![f] = 0] ELSE attempts
           /\ UNCHANGED <<rest, refusals>>
  <2>1. cursor' = [cursor EXCEPT ![f] = new]
    BY <1>7, <1>9
  <2> HIDE DEF new
  <2>2. /\ cursor' \in [Files -> [size : 0..MaxSize, offset : 0..MaxSize, age : Ages] \cup {None}]
        /\ cursor'[f] = new /\ \A g \in Files : g # f => cursor'[g] = cursor[g]
    BY <1>f, <1>4, <1>7, <2>1
  <2>3. Known' = Known
    BY <1>4, <2>2 DEF Known
  <2>4. CursorOK'
    <3>1. \A g \in Known' : cursor'[g].offset <= cursor'[g].size /\ cursor'[g].size <= size[g]
      <4> TAKE g \in Known'
      <4>1. CASE g = f
        BY <1>1, <1>4, <2>2, <4>1
      <4>2. CASE g # f
        BY <2>2, <2>3, <4>2 DEF ScanInv, CursorOK, Known
      <4> QED BY <4>1, <4>2
    <3> QED BY <2>2, <3>1 DEF CursorOK, Known
  <2>5. BudgetOK' /\ portions' - portions \in Nat
    BY <1>3, <1>5, <1>9 DEF BudgetOK
  <2>6. attempts' \in [Files -> 0..MaxRetries] /\ \A g \in Files : g # f => attempts'[g] = attempts[g]
    <3> HIDE DEF more
    <3>1. CASE attempts' = [attempts EXCEPT ![f] = 0]
      <4>1. 0 \in 0..MaxRetries /\ attempts \in [Files -> 0..MaxRetries]
        BY <1>7
      <4>2. attempts' \in [Files -> 0..MaxRetries]
        BY <3>1, <4>1
      <4>3. \A g \in Files : g # f => attempts'[g] = attempts[g]
        BY <3>1, <4>1
      <4> QED BY <4>2, <4>3
    <3>2. CASE attempts' = attempts
      BY <1>7, <3>2
    <3> QED BY <1>9, <3>1, <3>2
  <2>8. TimersOK'
    BY <1>9, <1>c, <2>6 DEF ScanInv, TimersOK
  <2> QED BY <1>5, <1>6, <2>2, <2>3, <2>4, <2>5, <2>6, <2>8
<1> QED BY <1>8, <1>9 DEF Scan

\* A file that was looked at is not forgotten either, if it joins the queue when
\* it has unread bytes and is not given up.
LEMMA ScannedKept ==
  ASSUME ScanInv, NEW f \in Known, Known' = Known, UNCHANGED deferred,
         \A g \in Files : g # f => cursor'[g] = cursor[g] /\ attempts'[g] = attempts[g],
         \A g \in ToSet(pending) : g # f => g \in ToSet(pending'),
         UnreadAfter(f) /\ ~TerminalAfter(f) => f \in ToSet(pending')
  PROVE  Kept'
<1> SUFFICES ASSUME NEW g \in Known, cursor'[g].size # cursor'[g].offset
             PROVE  g \in ToSet(pending') \cup ToSet(deferred') \/ attempts'[g] = MaxRetries
  BY DEF Kept, Unread, Terminal
<1>1. CASE g = f
  BY <1>1 DEF UnreadAfter, TerminalAfter
<1>2. CASE g # f
  <2>1. g \in Files /\ cursor'[g] = cursor[g] /\ attempts'[g] = attempts[g]
    BY <1>2 DEF Known
  <2>2. g \in ToSet(pending) \cup ToSet(deferred) \/ Terminal(g)
    BY <2>1 DEF ScanInv, Kept, Unread
  <2> QED BY <1>2, <2>1, <2>2 DEF Terminal
<1> QED BY <1>1, <1>2

\* The file that a set is looked at first for is one of it.
LEMMA CoolestIs ==
  ASSUME ScanInv, NEW fs \in SUBSET Known, fs # {}
  PROVE  Coolest(fs) \in fs
<1> DEFINE today == Aged(fs, 2)
           best == IF today # {} THEN today ELSE fs
           first(f) == \E i \in DOMAIN statOrder :
                          statOrder[i] = f /\ \A j \in 1..i-1 : statOrder[j] \notin best
           B == {i \in 1..Len(statOrder) : statOrder[i] \in best}
<1>1. best \subseteq fs /\ best # {}
  BY DEF Aged
<1>2. Coolest(fs) = CHOOSE f \in best : first(f)
  BY DEF Coolest
<1> HIDE DEF best
<1>3. statOrder \in Seq(Files) /\ ToSet(statOrder) = Files
  BY DEF ScanInv, OrderOK
<1>4. B \in SUBSET Nat /\ B # {}
  <2>1. PICK f \in best : f \in Files
    BY <1>1 DEF Known
  <2>2. PICK i \in 1..Len(statOrder) : statOrder[i] = f
    BY <1>3, <2>1 DEF ToSet
  <2> QED BY <2>1, <2>2
<1>5. PICK i \in B : \A j \in B : i <= j
  <2> HIDE DEF B
  <2> QED BY <1>4, FirstIs
<1>6. i \in DOMAIN statOrder /\ Len(statOrder) \in Nat
  BY <1>3
<1>7. \A j \in 1..i-1 : statOrder[j] \notin best
  <2> TAKE j \in 1..i-1
  <2>1. j \in 1..Len(statOrder) /\ ~(i <= j)
    BY <1>6
  <2> QED BY <1>5, <2>1
<1>8. first(statOrder[i]) /\ statOrder[i] \in best
  BY <1>6, <1>7
<1> HIDE DEF first
<1> QED BY <1>1, <1>2, <1>8

\* The read that is reserved for a hot file.
LEMMA ScanHotKeeps ==
  ASSUME ScanInv, ScanHot
  PROVE  ScanInv'
<1>1. /\ pc = "hot" /\ pc' = "pending" /\ queue' = pending'
      /\ UNCHANGED <<size, discover, deferred, rediscover, pendingPortions, parked>>
      /\ UNCHANGED disk /\ UNCHANGED registry /\ UNCHANGED mode
  BY DEF ScanHot, disk
<1>2. DiskOK' /\ (Registry \in Registries)' /\ ModeOK' /\ PendingOK'
  BY <1>1, PartsStay
<1>3. pending \in Seq(Files) /\ ToSet(pending) \cup ToSet(deferred) \subseteq Known
      /\ discover \in Seq(Providers) /\ deferred \in Seq(Files) /\ parked \in Seq(Files \X BOOLEAN)
  BY DEF ScanInv, ListsOK
<1>4. CASE /\ HotCandidates # {} /\ work > (IF pending = <<>> THEN 0 ELSE 1)
           /\ LET f == Coolest(HotCandidates) IN
                 /\ Scan(f)
                 /\ pending' = IF UnreadAfter(f) /\ ~TerminalAfter(f)
                               THEN Append(pending, f) ELSE pending
  <2> DEFINE f == Coolest(HotCandidates)
  <2>1. f \in Known
    BY <1>4, CoolestIs DEF HotCandidates, Dues
  <2>2. /\ Scan(f)
        /\ pending' = IF UnreadAfter(f) /\ ~TerminalAfter(f) THEN Append(pending, f) ELSE pending
    BY <1>4
  <2> HIDE DEF f
  <2>3. work > 0 /\ opens < FilesCatchUp
    BY <1>1, <1>4, ScheduleAssumption DEF ScanInv, PartOK, BudgetOK
  <2>4. /\ CursorOK' /\ OrderOK' /\ TimersOK' /\ BudgetOK' /\ Known' = Known
        /\ \A g \in Files : g # f => cursor'[g] = cursor[g] /\ attempts'[g] = attempts[g]
    BY <1>1, <2>1, <2>2, <2>3, ScanKeeps
  <2>5. /\ Append(pending, f) \in Seq(Files)
        /\ ToSet(Append(pending, f)) = ToSet(pending) \cup {f}
    <3>1. f \in Files
      BY <2>1 DEF Known
    <3> QED BY <1>3, <3>1, AppendSet
  <2>6. pending' \in Seq(Files) /\ ToSet(pending) \subseteq ToSet(pending')
        /\ ToSet(pending') \subseteq Known
        /\ (UnreadAfter(f) /\ ~TerminalAfter(f) => f \in ToSet(pending'))
    BY <1>3, <2>1, <2>2, <2>5
  <2>7. ListsOK'
    BY <1>1, <1>3, <2>4, <2>6 DEF ListsOK
  <2>8. Kept'
    BY <1>1, <2>1, <2>4, <2>6, ScannedKept
  <2>9. PartOK'
    <3>1. Len(pending') \in Nat
      BY <2>6
    <3> QED BY <1>1, <2>6, <3>1 DEF PartOK
  <2> QED BY <1>2, <2>4, <2>7, <2>8, <2>9 DEF ScanInv
<1>5. CASE UNCHANGED <<refusals, cursor, statOrder, pending, attempts, rest, cool, work, opens,
                       portions>>
  <2>1. CursorOK' /\ OrderOK' /\ TimersOK' /\ BudgetOK'
    BY <1>1, <1>5, PartsStay
  <2>2. ListsOK' /\ Kept'
    BY <1>1, <1>5, ListsStay, KeptStays
  <2>3. PartOK'
    <3>1. Len(pending') \in Nat
      BY <1>3, <1>5
    <3> QED BY <1>1, <1>3, <1>5, <3>1 DEF PartOK
  <2> QED BY <1>2, <2>1, <2>2, <2>3 DEF ScanInv
<1> QED BY <1>4, <1>5 DEF ScanHot

\* The path that the loop takes next is in the queue.
LEMMA NextIs ==
  ASSUME ScanInv, Len(pending) >= 1
  PROVE  NextPending \in 1..Len(pending)
<1> DEFINE todays(p) == {i \in DOMAIN pending : Kind(pending[i]) = p /\ cursor[pending[i]].age = 2}
           other == IF preferred = "claude" THEN "codex" ELSE "claude"
           best == IF todays(preferred) # {} THEN todays(preferred) ELSE todays(other)
<1>1. pending \in Seq(Files)
  BY DEF ScanInv, ListsOK
<1>2. NextPending = IF best = {} THEN 1 ELSE CHOOSE i \in best : \A j \in best : i <= j
  BY DEF NextPending
<1>3. best \subseteq 1..Len(pending) /\ Len(pending) \in Nat
  BY <1>1
<1> HIDE DEF best
<1>4. CASE best = {}
  BY <1>2, <1>3, <1>4
<1>5. CASE best # {}
  <2>1. best \in SUBSET Nat
    BY <1>3
  <2>2. \E i \in best : \A j \in best : i <= j
    BY <1>5, <2>1, FirstIs
  <2> QED BY <1>2, <1>3, <1>5, <2>2
<1> QED BY <1>4, <1>5

\* A round over the queue: only the file that was taken may leave it.
LEMMA ScanPendingKeeps ==
  ASSUME ScanInv, ScanPending
  PROVE  ScanInv'
<1> DEFINE f == pending[NextPending]
           left == RemoveAt(pending, NextPending)
<1>1. /\ pc = "pending" /\ queue # <<>> /\ opens < FileBudget /\ work > 0 /\ queue' = Tail(queue)
      /\ UNCHANGED <<size, discover, deferred, rediscover, catchUp, backlog, pc, parked>>
      /\ UNCHANGED disk /\ UNCHANGED registry
      /\ preferred' = IF cursor[f].age # 2 THEN preferred
                      ELSE IF f \in Claude THEN "codex" ELSE "claude"
      /\ IF f \in Resting
         THEN /\ work' = work - 1
              /\ UNCHANGED <<refusals, cursor, statOrder, attempts, rest, cool, opens, portions>>
         ELSE Scan(f)
      /\ pending' = IF (attempts'[f] > 0 \/ UnreadAfter(f)) /\ ~TerminalAfter(f)
                    THEN Append(left, f) ELSE left
      /\ pendingPortions' = pendingPortions + portions' - portions
  BY DEF ScanPending, disk
<1>2. /\ pending \in Seq(Files) /\ ToSet(pending) \cup ToSet(deferred) \subseteq Known
      /\ discover \in Seq(Providers) /\ deferred \in Seq(Files) /\ parked \in Seq(Files \X BOOLEAN)
      /\ queue \in Seq(Files) /\ Len(queue) <= Len(pending)
  BY <1>1 DEF ScanInv, ListsOK, PartOK
<1>3. /\ queue' \in Seq(Files) /\ Len(queue') = Len(queue) - 1 /\ Len(queue) >= 1
      /\ Len(queue) \in Nat /\ Len(pending) \in Nat
  <2>1. Len(queue) \in Nat /\ Len(pending) \in Nat
    BY <1>2
  <2> QED BY <1>1, <1>2, <2>1, TailSet
<1>4. NextPending \in 1..Len(pending)
  BY <1>2, <1>3, NextIs
<1> DEFINE n == NextPending
<1> HIDE DEF n
<1>5. f \in Files /\ f \in Known /\ f \in ToSet(pending) /\ f = pending[n]
  <2>1. f \in Files /\ f \in ToSet(pending)
    BY <1>2, <1>4 DEF ToSet
  <2> QED BY <1>2, <2>1 DEF n
<1>6. /\ left \in Seq(Files) /\ Len(left) = Len(pending) - 1
      /\ ToSet(left) \subseteq ToSet(pending)
      /\ \A x \in ToSet(pending) : x # f => x \in ToSet(left)
  <2>1. n \in 1..Len(pending) /\ left = RemoveAt(pending, n)
    BY <1>4 DEF n
  <2>2. left \in Seq(Files) /\ Len(left) = Len(pending) - 1
    BY <1>2, <2>1, Removed DEF IsRemoved
  <2>3. ToSet(left) \subseteq ToSet(pending)
    BY <1>2, <2>1, RemovedSubset
  <2>4. \A x \in ToSet(pending) : x # pending[n] => x \in ToSet(left)
    BY <1>2, <2>1, RemovedSet
  <2> QED BY <1>5, <2>2, <2>3, <2>4
<1> HIDE DEF f, left
<1>7. /\ Append(left, f) \in Seq(Files) /\ Len(Append(left, f)) = Len(left) + 1
      /\ ToSet(Append(left, f)) = ToSet(left) \cup {f}
  BY <1>5, <1>6, AppendSet, AppendProperties
<1>8. /\ pending' \in Seq(Files) /\ Len(pending') >= Len(pending) - 1 /\ Len(pending') \in Nat
      /\ ToSet(pending') \subseteq ToSet(pending)
      /\ \A x \in ToSet(pending) : x # f => x \in ToSet(pending')
      /\ (UnreadAfter(f) /\ ~TerminalAfter(f) => f \in ToSet(pending'))
  BY <1>1, <1>3, <1>5, <1>6, <1>7
<1>9. DiskOK' /\ (Registry \in Registries)'
  BY <1>1, PartsStay
<1>10. ModeOK'
  BY <1>1 DEF ScanInv, ModeOK, Providers
<1>11. /\ CursorOK' /\ OrderOK' /\ TimersOK' /\ BudgetOK' /\ Known' = Known
       /\ portions' - portions \in Nat
       /\ \A g \in Files : g # f => cursor'[g] = cursor[g] /\ attempts'[g] = attempts[g]
  <2>1. CASE f \in Resting
    <3>1. CursorOK' /\ OrderOK' /\ TimersOK' /\ Known' = Known
      BY <1>1, <2>1, PartsStay
    <3>2. work' = work - 1 /\ work \in 0..FilesCatchUp /\ FilesCatchUp \in Nat
      BY <1>1, <2>1, ScheduleAssumption DEF ScanInv, BudgetOK
    <3>3. BudgetOK'
      BY <1>1, <2>1, <3>2 DEF ScanInv, BudgetOK
    <3>4. portions' - portions \in Nat
      BY <1>1, <2>1 DEF ScanInv, BudgetOK
    <3> QED BY <1>1, <2>1, <3>1, <3>3, <3>4
  <2>2. CASE f \notin Resting
    <3>1. opens < FilesCatchUp
      BY <1>1, BudgetIs DEF ScanInv, BudgetOK
    <3> QED BY <1>1, <1>5, <2>2, <3>1, ScanKeeps
  <2> QED BY <2>1, <2>2
<1>12. ListsOK'
  BY <1>1, <1>2, <1>8, <1>11 DEF ListsOK
<1>13. Kept'
  BY <1>1, <1>5, <1>8, <1>11, ScannedKept
<1>14. PartOK'
  <2>1. Len(queue') <= Len(pending')
    BY <1>2, <1>3, <1>8
  <2> QED BY <1>1, <1>3, <2>1 DEF PartOK
<1>15. PendingOK'
  <2>1. pendingPortions \in Nat /\ portions \in Nat /\ portions' \in Nat
    BY <1>11 DEF ScanInv, BudgetOK, PendingOK
  <2>2. portions' - portions \in Nat /\ pendingPortions' = pendingPortions + portions' - portions
    BY <1>1, <1>11
  <2>3. \A spent \in Nat, old \in Nat, new \in Nat :
          new - old \in Nat => spent + new - old \in Nat
    OBVIOUS
  <2>4. pendingPortions + portions' - portions \in Nat
    BY <2>1, <2>2, <2>3
  <2> QED BY <2>2, <2>4 DEF PendingOK
<1> QED BY <1>9, <1>10, <1>11, <1>12, <1>13, <1>14, <1>15 DEF ScanInv

\* Only known files are looked at again.
LEMMA CandidatesKnown ==
  ASSUME ScanInv
  PROVE  Candidates \in Seq(Files) /\ ToSet(Candidates) \subseteq Known
<1> DEFINE due == {f \in Dues \ Cool : Unread(f) => Terminal(f)}
           all == Filter(Order, due)
           aged(a) == Filter(Order, Aged(due, a))
           ranked == IF Len(all) <= StatBudget THEN all ELSE aged(2) \o aged(1) \o aged(0)
           n == Least(Len(ranked), StatBudget)
<1>1. Candidates = SubSeq(ranked, 1, n)
  BY DEF Candidates
<1>2. due \subseteq Known
  BY DEF Dues
<1> HIDE DEF due
<1>3. Order \in Seq(Files) /\ StatBudget \in Nat
  BY ScheduleAssumption DEF Files
<1>4. all \in Seq(Files) /\ ToSet(all) \subseteq Known
  BY <1>2, <1>3, FilterIs
<1>5. ASSUME NEW a PROVE aged(a) \in Seq(Files) /\ ToSet(aged(a)) \subseteq Known
  <2>1. Aged(due, a) \subseteq Known
    BY <1>2 DEF Aged
  <2> QED BY <1>3, <2>1, FilterIs
<1> HIDE DEF all, aged
<1>6. /\ (aged(2) \o aged(1)) \o aged(0) \in Seq(Files)
      /\ ToSet((aged(2) \o aged(1)) \o aged(0)) \subseteq Known
  <2>1. aged(2) \in Seq(Files) /\ aged(1) \in Seq(Files) /\ aged(0) \in Seq(Files)
    BY <1>5
  <2> DEFINE t == aged(2) \o aged(1)
  <2>2. t \in Seq(Files) /\ ToSet(t) = ToSet(aged(2)) \cup ToSet(aged(1))
    BY <2>1, ConcatSet
  <2> HIDE DEF t
  <2>3. t \o aged(0) \in Seq(Files) /\ ToSet(t \o aged(0)) = ToSet(t) \cup ToSet(aged(0))
    BY <2>1, <2>2, ConcatSet
  <2>4. ToSet(aged(2)) \subseteq Known /\ ToSet(aged(1)) \subseteq Known /\ ToSet(aged(0)) \subseteq Known
    BY <1>5
  <2> QED BY <2>2, <2>3, <2>4 DEF t
<1>7. ranked \in Seq(Files) /\ ToSet(ranked) \subseteq Known
  BY <1>4, <1>6
<1> HIDE DEF ranked
<1>8. n \in Nat /\ n <= Len(ranked) /\ Len(ranked) \in Nat
  <2>1. Len(ranked) \in Nat
    BY <1>7
  <2> QED BY <1>3, <2>1 DEF Least
<1> HIDE DEF n
<1> DEFINE c == SubSeq(ranked, 1, n)
<1>9. c \in Seq(Files) /\ Len(c) = n /\ \A i \in 1..n : c[i] = ranked[i]
  BY <1>7, <1>8
<1> HIDE DEF c
<1>10. ToSet(c) \subseteq ToSet(ranked)
  <2>1. DOMAIN c = 1..n /\ DOMAIN ranked = 1..Len(ranked)
    BY <1>7, <1>9
  <2>2. \A i \in 1..n : i \in 1..Len(ranked)
    BY <1>8
  <2> QED BY <1>9, <2>1, <2>2 DEF ToSet
<1> QED BY <1>1, <1>7, <1>9, <1>10 DEF c

\* What is looked at again is known.
LEMMA EndPendingKeeps ==
  ASSUME ScanInv, EndPending
  PROVE  ScanInv'
<1>1. /\ pc' = "restat" /\ queue' = Candidates
      /\ UNCHANGED <<refusals, cursor, size, statOrder, attempts, rest, cool, rediscover,
                     discover, pending, deferred, work, opens, portions, pendingPortions, parked,
                     registrations>>
      /\ UNCHANGED disk /\ UNCHANGED registry /\ UNCHANGED mode
  BY DEF EndPending, disk, queues, registry, timers
<1>2. DiskOK' /\ CursorOK' /\ OrderOK' /\ TimersOK' /\ (Registry \in Registries)' /\ ModeOK'
      /\ BudgetOK' /\ PendingOK' /\ Known' = Known
  BY <1>1, PartsStay
<1>3. ListsOK' /\ Kept'
  BY <1>1, ListsStay, KeptStays
<1>4. PartOK'
  BY <1>1, <1>2, CandidatesKnown DEF PartOK
<1> QED BY <1>2, <1>3, <1>4 DEF ScanInv

\* A file is looked at again.
LEMMA RestatKeeps ==
  ASSUME ScanInv, Restat
  PROVE  ScanInv'
<1> DEFINE f == Head(queue)
<1>1. /\ pc = "restat" /\ queue # <<>> /\ opens < FileBudget /\ work > 0 /\ queue' = Tail(queue)
      /\ Scan(f)
      /\ pending' = IF UnreadAfter(f) /\ ~TerminalAfter(f) THEN Append(pending, f) ELSE pending
      /\ UNCHANGED <<size, discover, deferred, rediscover, pc, pendingPortions, parked>>
      /\ UNCHANGED disk /\ UNCHANGED registry /\ UNCHANGED mode
  BY DEF Restat, disk
<1>2. /\ pending \in Seq(Files) /\ ToSet(pending) \cup ToSet(deferred) \subseteq Known
      /\ discover \in Seq(Providers) /\ deferred \in Seq(Files) /\ parked \in Seq(Files \X BOOLEAN)
      /\ queue \in Seq(Files) /\ ToSet(queue) \subseteq Known
  BY <1>1 DEF ScanInv, ListsOK, PartOK
<1>3. /\ f \in Known /\ f \in Files /\ queue' \in Seq(Files) /\ ToSet(queue') \subseteq Known
  <2>1. Head(queue) \in ToSet(queue) /\ Head(queue) \in Files /\ Tail(queue) \in Seq(Files)
        /\ ToSet(Tail(queue)) \subseteq ToSet(queue)
    BY <1>1, <1>2, TailSet
  <2> QED BY <1>1, <1>2, <2>1
<1> HIDE DEF f
<1>4. /\ CursorOK' /\ OrderOK' /\ TimersOK' /\ BudgetOK' /\ Known' = Known
      /\ \A g \in Files : g # f => cursor'[g] = cursor[g] /\ attempts'[g] = attempts[g]
  <2>1. opens < FilesCatchUp
    BY <1>1, BudgetIs DEF ScanInv, BudgetOK
  <2> QED BY <1>1, <1>3, <2>1, ScanKeeps
<1>5. DiskOK' /\ (Registry \in Registries)' /\ ModeOK' /\ PendingOK'
  BY <1>1, PartsStay
<1>6. Append(pending, f) \in Seq(Files) /\ ToSet(Append(pending, f)) = ToSet(pending) \cup {f}
  BY <1>2, <1>3, AppendSet
<1>7. pending' \in Seq(Files) /\ ToSet(pending) \subseteq ToSet(pending')
      /\ ToSet(pending') \subseteq Known
      /\ (UnreadAfter(f) /\ ~TerminalAfter(f) => f \in ToSet(pending'))
  BY <1>1, <1>2, <1>3, <1>6
<1>8. ListsOK'
  BY <1>1, <1>2, <1>4, <1>7 DEF ListsOK
<1>9. Kept'
  BY <1>1, <1>3, <1>4, <1>7, ScannedKept
<1>10. PartOK'
  BY <1>1, <1>3, <1>4 DEF PartOK
<1> QED BY <1>4, <1>5, <1>8, <1>9, <1>10 DEF ScanInv

\* The end of a tick, and of the catch-up: the deferred files join the queue.
LEMMA EndTickKeeps ==
  ASSUME ScanInv, EndTick
  PROVE  ScanInv'
<1> DEFINE done == catchUp /\ discover = <<>> /\ registrations = <<>> /\ Left = {}
<1>1. /\ pc' = "idle" /\ work' = 0 /\ opens' = 0 /\ portions' = 0 /\ pendingPortions' = 0
      /\ backlog' = (Left \ Resting # {}) /\ catchUp' = (catchUp /\ ~done)
      /\ pending' = IF done THEN pending \o deferred ELSE pending
      /\ deferred' = IF done THEN <<>> ELSE deferred
      /\ UNCHANGED <<refusals, cursor, size, statOrder, discover, attempts, rest, cool,
                     rediscover, preferred, parked>>
      /\ UNCHANGED disk /\ UNCHANGED registry
  BY DEF EndTick, disk, timers
<1> HIDE DEF done
<1>2. DiskOK' /\ CursorOK' /\ OrderOK' /\ TimersOK' /\ (Registry \in Registries)'
      /\ Known' = Known
  BY <1>1, PartsStay
<1>3. ModeOK'
  BY <1>1 DEF ScanInv, ModeOK
<1>4. BudgetOK' /\ PendingOK'
  BY <1>1, ScheduleAssumption DEF BudgetOK, PendingOK
<1>5. PartOK'
  BY <1>1 DEF PartOK
<1>6. /\ pending \in Seq(Files) /\ ToSet(pending) \cup ToSet(deferred) \subseteq Known
      /\ discover \in Seq(Providers) /\ deferred \in Seq(Files) /\ parked \in Seq(Files \X BOOLEAN)
  BY DEF ScanInv, ListsOK
<1>7. pending \o deferred \in Seq(Files)
      /\ ToSet(pending \o deferred) = ToSet(pending) \cup ToSet(deferred)
  BY <1>6, ConcatSet
<1>8. <<>> \in Seq(Files) /\ ToSet(<<>>) = {}
  BY DEF ToSet
<1>9. /\ pending' \in Seq(Files) /\ deferred' \in Seq(Files)
      /\ ToSet(pending') \cup ToSet(deferred') = ToSet(pending) \cup ToSet(deferred)
  BY <1>1, <1>6, <1>7, <1>8
<1>10. ListsOK'
  BY <1>1, <1>2, <1>6, <1>9 DEF ListsOK
<1>11. Kept'
  BY <1>1, <1>9, KeptStays
<1> QED BY <1>2, <1>3, <1>4, <1>5, <1>10, <1>11 DEF ScanInv

-----------------------------------------------------------------------------
\* The invariant says what the property says.
LEMMA QueuesFollow ==
  ASSUME ScanInv
  PROVE  QueuesTrue
<1>1. TypeOK
  <2>1. DiskOK /\ CursorOK /\ OrderOK /\ ListsOK /\ TimersOK /\ ModeOK /\ BudgetOK
        /\ PendingOK /\ PartOK
    BY DEF ScanInv
  <2>2. ToSet(discover) \subseteq Providers
    BY DEF ScanInv, ListsOK, ToSet
  <2>3. registrations \in Seq(Files \X BOOLEAN)
    BY DEF ScanInv, Registry, Registries
  <2> QED BY <2>1, <2>2, <2>3
      DEF TypeOK, DiskOK, CursorOK, OrderOK, ListsOK, TimersOK, ModeOK, BudgetOK,
          PendingOK, PartOK
<1>2. CountsDelimit
  <2>1. Registry \in Registries /\ Registry.list = registrations /\ Registry.today = todayCount
        /\ Registry.recent = recentCount
    BY DEF ScanInv, Registry
  <2>2. /\ registrations \in Seq(Files \X BOOLEAN) /\ todayCount \in Nat /\ recentCount \in Nat
        /\ todayCount <= recentCount /\ recentCount <= Len(registrations)
        /\ \A i \in 1..Len(registrations) : registrations[i][2] <=> i <= recentCount
    BY <2>1, RegistryIs
  <2>3. DOMAIN registrations = 1..Len(registrations)
    BY <2>2
  <2> QED BY <2>2, <2>3 DEF CountsDelimit
<1>3. NothingForgotten
  BY DEF ScanInv, Kept, NothingForgotten
<1> QED BY <1>1, <1>2, <1>3 DEF QueuesTrue

\* The counters of the queue of registrations cut it where its flags do, and between
\* ticks no file with unread bytes is forgotten, whatever Windows refused: for any
\* files, budgets and bounds (insert_recent_registration, queue_registration,
\* process_registrations, scan_pending_and_hot).
THEOREM QueuesStayTrue == ScanningSpec => []QueuesTrue
<1>1. ScanningInit => ScanInv
  BY ScanInitial DEF ScanningInit
<1>2. ScanInv /\ [ScanningNext]_scanningVars => ScanInv'
  <2> SUFFICES ASSUME ScanInv, [ScanningNext]_scanningVars PROVE ScanInv'
    OBVIOUS
  <2>1. CASE OfSchedule(Next)
    <3>1. Next
      BY <2>1 DEF OfSchedule
    <3>2. ASSUME NEW f \in Files, Write(f) PROVE ScanInv'
      BY <3>2, FileWriteKeeps
    <3>3. ASSUME NEW time \in {"instant", "seconds", "minute"}, BeginTick(time) PROVE ScanInv'
      BY <3>3, BeginTickKeeps
    <3>4. CASE InTick
      BY <3>4, DiscoverKeeps, BeginRegisterKeeps, RegisterKeeps, EndRegisterKeeps, ScanHotKeeps,
         ScanPendingKeeps, EndPendingKeeps, RestatKeeps, EndTickKeeps DEF InTick
    <3> QED BY <3>1, <3>2, <3>3, <3>4 DEF Next
  <2>2. CASE UNCHANGED vars
    <3>1. /\ UNCHANGED <<refusals, cursor, size, statOrder, attempts, rest, cool, rediscover,
                         discover, pending, deferred, work, opens, portions, pendingPortions,
                         parked, registrations, pc, queue>>
          /\ UNCHANGED disk /\ UNCHANGED registry /\ UNCHANGED mode
      BY <2>2 DEF vars, disk, queues, registry, timers, mode, tick
    <3> QED BY <3>1, PartsStay, ListsStay, KeptStays, PartStays DEF ScanInv
  <2>3. OfReader(Reader!Next) \/ OfFetch(FetchNext) => UNCHANGED vars
    BY DEF OfReader, OfFetch
  <2>4. UNCHANGED scanningVars => UNCHANGED vars
    BY DEF scanningVars
  <2> QED BY <2>1, <2>2, <2>3, <2>4 DEF ScanningNext
<1> QED BY <1>1, <1>2, QueuesFollow, PTL DEF ScanningSpec
-----------------------------------------------------------------------------
(***************************************************************************)
(* The fetches of the remote limits, for any providers, backoffs and       *)
(* bounds.  An outcome is never overwritten because a provider has at most *)
(* one worker yet to store one, and it has none while an outcome waits:    *)
(* in_flight, which only the message loop clears and only when it takes    *)
(* the outcome, stays set meanwhile.  The exit clears it too, but no tick  *)
(* follows.                                                                *)
(***************************************************************************)

\* The next backoff is below the cap.
LEMMA BackoffTyped ==
    ASSUME NEW b \in 0..BackoffMax
    PROVE  NextBackoff(b) \in 0..BackoffMax
  BY FetchAssumption DEF NextBackoff

\* After a failure the limits do not pass for current.
LEMMA AfterFailureTyped ==
    ASSUME NEW p
    PROVE  AfterFailure(p) \subseteq {"Stale", "Expired", "Failed"}
  BY DEF AfterFailure

\* The types hold at the start.
LEMMA FetchInitTyped == FetchInit => FetchTypeOK
  <1> SUFFICES ASSUME FetchInit PROVE FetchTypeOK
    OBVIOUS
  <1> USE DEF FetchInit
  <1>1. MaxGeneration \in Nat /\ BackoffMax \in Nat
    BY FetchAssumption
  <1>2. 0 \in 0..MaxGeneration + 1 /\ 0 \in 0..BackoffMax /\ 0 \in 0..MaxGeneration
    BY <1>1
  <1>3. generation \in [Slots -> 0..MaxGeneration + 1]
    BY <1>2
  <1>4. backoff \in [Slots -> 0..BackoffMax] /\ shown \in [Slots -> 0..MaxGeneration]
    BY <1>2
  <1>5. worker \in [Slots -> [Generations -> Active \cup {"none", "stored", "done"}]]
    OBVIOUS
  <1> QED
    BY <1>3, <1>4, <1>5 DEF FetchTypeOK

\* What the message loop makes of the slots has its type.
LEMMA TakeTyped ==
    ASSUME FetchTypeOK, TakeLimits
    PROVE  /\ inFlight' \in [Slots -> BOOLEAN]
           /\ generation' \in [Slots -> 0..MaxGeneration + 1]
           /\ failed' \in [Slots -> BOOLEAN]
           /\ freshness' \in
                [Slots -> {"Unknown", "Current", "Stale", "Expired", "Failed"}]
           /\ backoff' \in [Slots -> 0..BackoffMax]
           /\ latest' \in [Slots -> Outcomes \cup {Empty}]
           /\ shown' \in [Slots -> 0..MaxGeneration]
  <1> USE DEF FetchTypeOK, TakeLimits
  <1>1. inFlight' \in [Slots -> BOOLEAN] /\ failed' \in [Slots -> BOOLEAN]
    OBVIOUS
  <1>2. generation' \in [Slots -> 0..MaxGeneration + 1]
    OBVIOUS
  <1>3. freshness' \in [Slots -> {"Unknown", "Current", "Stale", "Expired", "Failed"}]
    OBVIOUS
  <1>4. backoff' \in [Slots -> 0..BackoffMax]
    <2>1. ASSUME NEW p \in Slots PROVE backoff'[p] \in 0..BackoffMax
      <3>1. 0 \in 0..BackoffMax
        BY FetchAssumption
      <3>2. NextBackoff(backoff[p]) \in 0..BackoffMax
        BY BackoffTyped
      <3> QED
        BY <3>1, <3>2
    <2> QED
      BY <2>1
  <1>5. latest' \in [Slots -> Outcomes \cup {Empty}]
    OBVIOUS
  <1>6. shown' \in [Slots -> 0..MaxGeneration]
    <2>1. ASSUME NEW p \in Slots PROVE shown'[p] \in 0..MaxGeneration
      <3>1. CASE Applied(p)
        <4>1. latest[p] \in Outcomes
          BY <3>1 DEF Applied
        <4>2. latest[p].generation \in 1..MaxGeneration
          BY <4>1 DEF Outcomes, Generations
        <4> QED
          BY <3>1, <4>2, FetchAssumption
      <3>2. CASE ~Applied(p)
        BY <3>2
      <3> QED
        BY <3>1, <3>2
    <2> QED
      BY <2>1
  <1> QED
    BY <1>1, <1>2, <1>3, <1>4, <1>5, <1>6

\* A request that begins has a number within the bound.
LEMMA BeginTyped ==
    ASSUME FetchTypeOK, NEW p \in Slots, Begin(p)
    PROVE  /\ generation[p] + 1 \in Generations
           /\ generation' \in [Slots -> 0..MaxGeneration + 1]
           /\ generation'[p] = generation[p] + 1
           /\ visit' \in SUBSET Slots
  <1> USE DEF FetchTypeOK, Begin
  <1>1. MaxGeneration \in Nat /\ generation[p] \in 0..MaxGeneration + 1
    BY FetchAssumption
  <1>2. generation[p] + 1 \in 1..MaxGeneration
    BY <1>1
  <1>3. generation[p] + 1 \in 0..MaxGeneration + 1
    BY <1>1, <1>2
  <1> QED
    BY <1>2, <1>3 DEF Generations

-----------------------------------------------------------------------------
(* The inductive invariant.                                                *)

\* Only the exit numbers a request past the bound, and only between two ticks.
WithinBound ==
    IF cancelled THEN visit = {} ELSE \A p \in Slots : generation[p] <= MaxGeneration

\* A worker that has not stored yet is the only such one of its provider, its
\* slot is empty, and before the exit its provider is in flight.
OneWorker ==
    \A p \in Slots : \A g \in Generations :
        worker[p][g] \in Active =>
            /\ latest[p] = Empty
            /\ ~cancelled => inFlight[p]
            /\ \A h \in Generations \ {g} : worker[p][h] \notin Active

\* Before the exit, a provider whose outcome waits is in flight.
SlotFlies == \A p \in Slots : latest[p] # Empty /\ ~cancelled => inFlight[p]

FetchInv == FetchTypeOK /\ WithinBound /\ OneWorker /\ SlotFlies /\ CurrentIsHonest

\* The invariant holds at the start.
LEMMA InitFetch == FetchInit => FetchInv
  <1> SUFFICES ASSUME FetchInit PROVE FetchInv
    OBVIOUS
  <1>1. FetchTypeOK
    BY FetchInitTyped
  <1>2. WithinBound
    BY FetchAssumption DEF FetchInit, WithinBound
  <1>3. OneWorker /\ SlotFlies /\ CurrentIsHonest
    BY DEF FetchInit, OneWorker, SlotFlies, CurrentIsHonest, Active
  <1> QED
    BY <1>1, <1>2, <1>3 DEF FetchInv

\* After the slots were taken, what passes for current is.
LEMMA TakeHonest ==
    ASSUME FetchInv, TakeLimits
    PROVE  CurrentIsHonest'
  <1> SUFFICES ASSUME NEW p \in Slots, freshness'[p] = "Current"
               PROVE  shown'[p] # 0 /\ ~failed'[p] /\ backoff'[p] = 0
    BY DEF CurrentIsHonest
  <1> USE DEF FetchInv, FetchTypeOK, TakeLimits
  <1>1. CASE Applied(p)
    <2>1. latest[p] \in Outcomes /\ ~Missed(p)
      BY <1>1 DEF Applied, Missed
    <2>2. latest[p].generation \in 1..MaxGeneration
      BY <2>1 DEF Outcomes, Generations
    <2>3. latest[p].generation # 0
      BY <2>2, FetchAssumption
    <2> QED
      BY <1>1, <2>1, <2>3
  <1>2. CASE Missed(p)
    BY <1>2, AfterFailureTyped DEF Applied, Missed
  <1>3. CASE ~Applied(p) /\ ~Missed(p)
    BY <1>3 DEF CurrentIsHonest
  <1> QED
    BY <1>1, <1>2, <1>3

\* A message of a worker.
LEMMA HandleReadyKeeps == FetchInv /\ HandleReady => FetchInv'
  <1> SUFFICES ASSUME FetchInv, HandleReady PROVE FetchInv'
    OBVIOUS
  <1>1. FetchTypeOK'
    BY TakeTyped DEF HandleReady, FetchTypeOK, FetchInv
  <1>2. WithinBound'
    BY DEF FetchInv, WithinBound, HandleReady, TakeLimits
  <1>3. OneWorker'
    BY DEF FetchInv, FetchTypeOK, OneWorker, HandleReady, TakeLimits
  <1>4. SlotFlies'
    BY DEF FetchInv, FetchTypeOK, SlotFlies, HandleReady, TakeLimits
  <1>5. CurrentIsHonest'
    BY TakeHonest DEF HandleReady
  <1> QED
    BY <1>1, <1>2, <1>3, <1>4, <1>5 DEF FetchInv

\* A tick.
LEMMA TickKeeps == FetchInv /\ Tick => FetchInv'
  <1> SUFFICES ASSUME FetchInv, Tick PROVE FetchInv'
    OBVIOUS
  <1>1. FetchTypeOK'
    BY TakeTyped DEF Tick, FetchTypeOK, FetchInv
  <1>2. WithinBound'
    BY DEF FetchInv, WithinBound, Tick, TakeLimits
  <1>3. OneWorker'
    BY DEF FetchInv, FetchTypeOK, OneWorker, Tick, TakeLimits
  <1>4. SlotFlies'
    BY DEF FetchInv, FetchTypeOK, SlotFlies, Tick, TakeLimits
  <1>5. CurrentIsHonest'
    BY TakeHonest DEF Tick
  <1> QED
    BY <1>1, <1>2, <1>3, <1>4, <1>5 DEF FetchInv

\* The exit.
LEMMA CancelKeeps == FetchInv /\ Cancel => FetchInv'
  <1> SUFFICES ASSUME FetchInv, Cancel PROVE FetchInv'
    OBVIOUS
  <1>1. FetchTypeOK'
    <2>1. freshness' \in [Slots -> {"Unknown", "Current", "Stale", "Expired", "Failed"}]
      BY DEF Cancel
    <2>2. ASSUME NEW p \in Slots PROVE generation[p] + 1 \in 0..MaxGeneration + 1
      <3>1. generation[p] \in 0..MaxGeneration + 1 /\ generation[p] <= MaxGeneration
        BY DEF FetchInv, FetchTypeOK, WithinBound, Cancel
      <3> QED
        BY <3>1, FetchAssumption
    <2>3. generation' \in [Slots -> 0..MaxGeneration + 1]
      BY <2>2 DEF Cancel
    <2> QED
      BY <2>1, <2>3 DEF Cancel, FetchInv, FetchTypeOK
  <1>2. WithinBound' /\ OneWorker' /\ SlotFlies'
    BY DEF FetchInv, WithinBound, OneWorker, SlotFlies, Cancel
  <1>3. CurrentIsHonest'
    BY AfterFailureTyped DEF CurrentIsHonest, Cancel
  <1> QED
    BY <1>1, <1>2, <1>3 DEF FetchInv

\* A provider that is not due.
LEMMA NotDueKeeps ==
    ASSUME FetchInv, NEW p \in Slots, NotDue(p)
    PROVE  FetchInv'
  <1>1. FetchTypeOK' /\ WithinBound'
    BY DEF FetchInv, FetchTypeOK, WithinBound, NotDue, fetchState
  <1>2. OneWorker' /\ SlotFlies' /\ CurrentIsHonest'
    BY DEF FetchInv, OneWorker, SlotFlies, CurrentIsHonest, NotDue, fetchState
  <1> QED
    BY <1>1, <1>2 DEF FetchInv

\* A request that starts: the provider has no other worker, its slot is empty.
LEMMA StartFetchKeeps ==
    ASSUME FetchInv, NEW p \in Slots, StartFetch(p)
    PROVE  FetchInv'
  <1> DEFINE n == generation[p] + 1
  <1>1. Begin(p) /\ ~cancelled /\ MayStart(p)
    BY DEF StartFetch, Begin, FetchInv, WithinBound
  <1>2. n \in Generations /\ generation' \in [Slots -> 0..MaxGeneration + 1]
    BY <1>1, BeginTyped DEF FetchInv
  <1>3. worker' = [worker EXCEPT ![p][n] = "spawned"]
    BY DEF StartFetch
  <1>4. FetchTypeOK'
    <2>1. worker' \in [Slots -> [Generations -> Active \cup {"none", "stored", "done"}]]
      BY <1>2, <1>3 DEF FetchInv, FetchTypeOK, Active
    <2>2. inFlight' \in [Slots -> BOOLEAN] /\ running' \in [Slots -> BOOLEAN]
      BY DEF FetchInv, FetchTypeOK, StartFetch
    <2>3. visit' \in SUBSET Slots
      BY <1>1, BeginTyped DEF FetchInv
    <2> QED
      BY <1>2, <2>1, <2>2, <2>3 DEF FetchInv, FetchTypeOK, StartFetch
  <1>5. WithinBound'
    <2>1. ASSUME NEW q \in Slots PROVE generation'[q] <= MaxGeneration
      <3>1. CASE q = p
        <4>1. generation'[p] = n /\ n \in 1..MaxGeneration
          BY <1>1, <1>2, BeginTyped DEF FetchInv, Generations
        <4> QED
          BY <3>1, <4>1, FetchAssumption
      <3>2. CASE q # p
        BY <1>1, <3>2 DEF FetchInv, FetchTypeOK, WithinBound, Begin
      <3> QED
        BY <3>1, <3>2
    <2> QED
      BY <1>1, <2>1 DEF WithinBound, StartFetch
  <1>6. latest[p] = Empty /\ \A g \in Generations : worker[p][g] \notin Active
    BY <1>1 DEF FetchInv, OneWorker, SlotFlies, MayStart
  <1>7. OneWorker'
    <2> SUFFICES ASSUME NEW q \in Slots, NEW g \in Generations, worker'[q][g] \in Active
                 PROVE  /\ latest'[q] = Empty
                        /\ ~cancelled' => inFlight'[q]
                        /\ \A h \in Generations \ {g} : worker'[q][h] \notin Active
      BY DEF OneWorker
    <2>1. CASE q = p
      <3>1. g = n
        BY <1>2, <1>3, <1>6, <2>1 DEF FetchInv, FetchTypeOK
      <3>2. \A h \in Generations \ {g} : worker'[q][h] = worker[q][h]
        BY <1>2, <1>3, <2>1, <3>1 DEF FetchInv, FetchTypeOK
      <3>3. inFlight'[p] /\ latest'[p] = Empty
        BY <1>6 DEF StartFetch, FetchInv, FetchTypeOK
      <3> QED
        BY <1>6, <2>1, <3>2, <3>3
    <2>2. CASE q # p
      <3>1. worker'[q] = worker[q] /\ latest'[q] = latest[q]
        BY <1>3, <2>2 DEF FetchInv, FetchTypeOK, StartFetch
      <3>2. inFlight'[q] = inFlight[q] /\ cancelled' = cancelled
        BY <2>2 DEF FetchInv, FetchTypeOK, StartFetch
      <3> QED
        BY <3>1, <3>2 DEF FetchInv, OneWorker
    <2> QED
      BY <2>1, <2>2
  <1>8. SlotFlies' /\ CurrentIsHonest'
    BY DEF FetchInv, FetchTypeOK, SlotFlies, CurrentIsHonest, StartFetch
  <1> QED
    BY <1>4, <1>5, <1>7, <1>8 DEF FetchInv

\* A thread that cannot be started.
LEMMA SpawnFailsKeeps ==
    ASSUME FetchInv, NEW p \in Slots, SpawnFails(p)
    PROVE  FetchInv'
  <1>1. Begin(p) /\ ~cancelled
    BY DEF SpawnFails, Begin, FetchInv, WithinBound
  <1>2. generation[p] + 1 \in Generations /\ generation'[p] = generation[p] + 1
    BY <1>1, BeginTyped DEF FetchInv
  <1>3. PICK fresh \in AfterFailure(p) : freshness' = [freshness EXCEPT ![p] = fresh]
    BY DEF SpawnFails
  <1>4. fresh \in {"Stale", "Expired", "Failed"}
    BY <1>3, AfterFailureTyped
  <1>5. FetchTypeOK'
    <2>1. generation' \in [Slots -> 0..MaxGeneration + 1] /\ visit' \in SUBSET Slots
      BY <1>1, BeginTyped DEF FetchInv
    <2>2. backoff' \in [Slots -> 0..BackoffMax]
      <3>1. NextBackoff(backoff[p]) \in 0..BackoffMax
        BY BackoffTyped DEF FetchInv, FetchTypeOK
      <3> QED
        BY <3>1 DEF FetchInv, FetchTypeOK, SpawnFails
    <2>3. freshness' \in [Slots -> {"Unknown", "Current", "Stale", "Expired", "Failed"}]
      BY <1>3, <1>4 DEF FetchInv, FetchTypeOK
    <2> QED
      BY <2>1, <2>2, <2>3 DEF FetchInv, FetchTypeOK, SpawnFails
  <1>6. WithinBound'
    <2>1. ASSUME NEW q \in Slots PROVE generation'[q] <= MaxGeneration
      <3>1. CASE q = p
        <4>1. generation'[p] \in 1..MaxGeneration
          BY <1>2 DEF Generations
        <4> QED
          BY <3>1, <4>1, FetchAssumption
      <3>2. CASE q # p
        BY <1>1, <3>2 DEF FetchInv, FetchTypeOK, WithinBound, Begin
      <3> QED
        BY <3>1, <3>2
    <2> QED
      BY <1>1, <2>1 DEF WithinBound, SpawnFails
  <1>7. OneWorker' /\ SlotFlies'
    BY DEF FetchInv, OneWorker, SlotFlies, SpawnFails
  <1>8. CurrentIsHonest'
    <2> SUFFICES ASSUME NEW q \in Slots, freshness'[q] = "Current"
                 PROVE  shown'[q] # 0 /\ ~failed'[q] /\ backoff'[q] = 0
      BY DEF CurrentIsHonest
    <2>1. q # p
      BY <1>3, <1>4 DEF FetchInv, FetchTypeOK
    <2> QED
      BY <1>3, <2>1 DEF FetchInv, FetchTypeOK, CurrentIsHonest, SpawnFails
  <1> QED
    BY <1>5, <1>6, <1>7, <1>8 DEF FetchInv

\* A worker that neither appears nor vanishes elsewhere and leaves its slot alone.
LEMMA AdvanceTyped ==
    ASSUME FetchInv, NEW p \in Slots, NEW g \in Generations, NEW from,
           NEW to \in Active \cup {"none", "stored", "done"}, Advance(p, g, from, to)
    PROVE  /\ worker' \in [Slots -> [Generations -> Active \cup {"none", "stored", "done"}]]
           /\ worker'[p][g] = to
           /\ \A q \in Slots : \A h \in Generations :
                 q # p \/ h # g => worker'[q][h] = worker[q][h]
  BY DEF FetchInv, FetchTypeOK, Advance

\* The end of a request, before its outcome is stored.
LEMMA FetchEndsKeeps ==
    ASSUME FetchInv, NEW p \in Slots, NEW g \in Generations, FetchEnds(p, g)
    PROVE  FetchInv'
  <1>1. PICK to \in {"good", "bad"} : Advance(p, g, "spawned", to)
    BY DEF FetchEnds
  <1>2. to \in Active /\ worker[p][g] \in Active
    BY <1>1 DEF Active, Advance
  <1>3. FetchTypeOK' /\ WithinBound'
    BY <1>1, <1>2, AdvanceTyped
    DEF FetchEnds, Advance, FetchInv, FetchTypeOK, WithinBound, fetchState
  <1>4. \A q \in Slots : \A h \in Generations :
           worker'[q][h] \in Active <=> worker[q][h] \in Active
    BY <1>1, <1>2, AdvanceTyped
  <1>5. OneWorker' /\ SlotFlies' /\ CurrentIsHonest'
    BY <1>1, <1>4
    DEF FetchEnds, Advance, FetchInv, OneWorker, SlotFlies, CurrentIsHonest, fetchState
  <1> QED
    BY <1>3, <1>5 DEF FetchInv

\* A worker stores its outcome.
LEMMA StoreOutcomeKeeps ==
    ASSUME FetchInv, NEW p \in Slots, NEW g \in Generations, StoreOutcome(p, g)
    PROVE  FetchInv'
  <1>1. PICK good \in BOOLEAN :
           /\ Advance(p, g, IF good THEN "good" ELSE "bad", "stored")
           /\ latest' = [latest EXCEPT ![p] = [generation |-> g, good |-> good]]
    BY DEF StoreOutcome
  <1>2. worker[p][g] \in Active
    BY <1>1 DEF Active, Advance
  <1>3. "stored" \notin Active
    BY DEF Active
  <1>4. FetchTypeOK' /\ WithinBound'
    <2>1. latest' \in [Slots -> Outcomes \cup {Empty}]
      BY <1>1 DEF FetchInv, FetchTypeOK, Outcomes
    <2> QED
      BY <1>1, <2>1, AdvanceTyped
      DEF StoreOutcome, Advance, FetchInv, FetchTypeOK, WithinBound, fetchState
  <1>5. \A q \in Slots : \A h \in Generations :
           worker'[q][h] \in Active => worker[q][h] \in Active /\ q # p
    BY <1>1, <1>2, <1>3, AdvanceTyped DEF FetchInv, OneWorker
  <1>6. \A q \in Slots : q # p => latest'[q] = latest[q]
    BY <1>1 DEF FetchInv, FetchTypeOK
  <1>7. inFlight' = inFlight /\ cancelled' = cancelled
    BY <1>1 DEF Advance, fetchState
  <1>8. OneWorker'
    BY <1>5, <1>6, <1>7 DEF FetchInv, OneWorker
  <1>9. SlotFlies'
    BY <1>2, <1>6, <1>7 DEF FetchInv, OneWorker, SlotFlies
  <1>10. CurrentIsHonest'
    BY <1>1 DEF FetchInv, CurrentIsHonest, Advance, fetchState
  <1> QED
    BY <1>4, <1>8, <1>9, <1>10 DEF FetchInv

\* A worker clears its flag and ends.
LEMMA ClearRunningKeeps ==
    ASSUME FetchInv, NEW p \in Slots, NEW g \in Generations, ClearRunning(p, g)
    PROVE  FetchInv'
  <1>1. Advance(p, g, "stored", "done") /\ "done" \notin Active
    BY DEF ClearRunning, Active
  <1>2. FetchTypeOK' /\ WithinBound'
    BY <1>1, AdvanceTyped
    DEF ClearRunning, Advance, FetchInv, FetchTypeOK, WithinBound, fetchState
  <1>3. \A q \in Slots : \A h \in Generations :
           worker'[q][h] \in Active => worker[q][h] \in Active
    BY <1>1, AdvanceTyped
  <1>4. \A q \in Slots : \A h \in Generations :
           worker[q][h] \notin Active => worker'[q][h] \notin Active
    BY <1>3
  <1>5. OneWorker' /\ SlotFlies' /\ CurrentIsHonest'
    BY <1>1, <1>3, <1>4
    DEF ClearRunning, Advance, FetchInv, OneWorker, SlotFlies, CurrentIsHonest, fetchState
  <1> QED
    BY <1>2, <1>5 DEF FetchInv

\* Every step.
LEMMA FetchNextKeeps == FetchInv /\ [FetchNext]_fetchVars => FetchInv'
  <1> SUFFICES ASSUME FetchInv, [FetchNext]_fetchVars PROVE FetchInv'
    OBVIOUS
  <1>1. CASE HandleReady
    BY <1>1, HandleReadyKeeps
  <1>2. CASE Tick
    BY <1>2, TickKeeps
  <1>3. CASE Cancel
    BY <1>3, CancelKeeps
  <1>4. CASE \E p \in Slots : Visit(p)
    BY <1>4, NotDueKeeps, StartFetchKeeps, SpawnFailsKeeps DEF Visit
  <1>5. CASE \E p \in Slots : \E g \in Generations : Work(p, g)
    BY <1>5, FetchEndsKeeps, StoreOutcomeKeeps, ClearRunningKeeps DEF Work
  <1>6. CASE UNCHANGED fetchVars
    BY <1>6 DEF fetchVars, fetchState, FetchInv, FetchTypeOK, WithinBound, OneWorker, SlotFlies,
                CurrentIsHonest
  <1> QED
    BY <1>1, <1>2, <1>3, <1>4, <1>5, <1>6 DEF FetchNext

\* So the invariant always holds.
LEMMA AlwaysFetch == FetchSpec => []FetchInv
  BY InitFetch, FetchNextKeeps, PTL DEF FetchSpec

-----------------------------------------------------------------------------
(* The results.                                                            *)

\* Every variable keeps its type, and a backoff never passes its cap.
THEOREM FetchTypeCorrect == FetchSpec => []FetchTypeOK
  <1>1. FetchInv => FetchTypeOK
    BY DEF FetchInv
  <1> QED
    BY <1>1, AlwaysFetch, PTL

\* Limits that pass for current were fetched, and no attempt failed since.
THEOREM CurrentAlwaysHonest == FetchSpec => []CurrentIsHonest
  <1>1. FetchInv => CurrentIsHonest
    BY DEF FetchInv
  <1> QED
    BY <1>1, AlwaysFetch, PTL

\* A worker finds its slot empty: no outcome is overwritten before it is taken.
THEOREM OutcomesNeverLost == FetchSpec => NoOutcomeLost
  <1> DEFINE Keeps == \A p \in Slots : latest[p] # Empty => latest'[p] \in {Empty, latest[p]}
  <1>1. FetchInv /\ [FetchNext]_fetchVars => [Keeps]_fetchVars
    <2> SUFFICES ASSUME FetchInv, FetchNext, NEW p \in Slots, latest[p] # Empty
                 PROVE  latest'[p] \in {Empty, latest[p]}
      OBVIOUS
    <2>1. CASE HandleReady \/ Tick \/ Cancel
      BY <2>1 DEF HandleReady, Tick, Cancel, TakeLimits
    <2>2. CASE \E q \in Slots : Visit(q)
      BY <2>2 DEF Visit, NotDue, StartFetch, SpawnFails
    <2>3. CASE \E q \in Slots : \E g \in Generations : Work(q, g)
      <3> PICK q \in Slots, g \in Generations : Work(q, g)
        BY <2>3
      <3>1. CASE StoreOutcome(q, g)
        <4>1. worker[q][g] \in Active
          BY <3>1 DEF StoreOutcome, Advance, Active
        <4>2. q # p
          BY <4>1 DEF FetchInv, OneWorker
        <4> QED
          BY <3>1, <4>2 DEF StoreOutcome, FetchInv, FetchTypeOK
      <3>2. CASE FetchEnds(q, g) \/ ClearRunning(q, g)
        BY <3>2 DEF FetchEnds, ClearRunning
      <3> QED
        BY <3>1, <3>2 DEF Work
    <2> QED
      BY <2>1, <2>2, <2>3 DEF FetchNext
  <1> QED
    BY <1>1, AlwaysFetch, PTL DEF FetchSpec, NoOutcomeLost

\* The limits on show are replaced only by those of the newest request, before
\* the exit.
THEOREM OnlyNewestEverShown == FetchSpec => OnlyNewestShown
  <1> DEFINE Newest == \A p \in Slots :
                          shown'[p] # shown[p] => ~cancelled /\ shown'[p] = generation[p]
  <1>1. FetchInv /\ [FetchNext]_fetchVars => [Newest]_fetchVars
    <2> SUFFICES ASSUME FetchInv, FetchNext, NEW p \in Slots, shown'[p] # shown[p]
                 PROVE  ~cancelled /\ shown'[p] = generation[p]
      OBVIOUS
    <2>1. TakeLimits
      BY DEF FetchNext, HandleReady, Tick, Cancel, Visit, NotDue, StartFetch, SpawnFails, Work,
             FetchEnds, StoreOutcome, ClearRunning, Advance
    <2>2. Applied(p) /\ shown'[p] = latest[p].generation
      BY <2>1 DEF TakeLimits, FetchInv, FetchTypeOK
    <2> QED
      BY <2>2 DEF Applied, RejectLate
  <1> QED
    BY <1>1, AlwaysFetch, PTL DEF FetchSpec, OnlyNewestShown
=============================================================================
