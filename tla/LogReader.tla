----------------------------- MODULE LogReader -----------------------------
(***************************************************************************)
(* Reading a session file that other programs append to: read_appended of  *)
(* the usage collector, and what scan_file does with its result.  The file *)
(* is a sequence of bytes.  A line is handed to the parser when its        *)
(* newline is there; a line that is too long is skipped, in several reads  *)
(* if need be; the cursor's offset moves over complete lines only.         *)
(*                                                                         *)
(* The file only grows here: UsageIngest has the changes that make the     *)
(* collector start over.                                                   *)
(***************************************************************************)
EXTENDS Integers, Sequences

CONSTANTS
    MaxLine,     \* bytes of the longest line that is parsed (MAX_PARSE_LINE)
    MaxSkip,     \* bytes of a long line that one read skips (MAX_SKIP_PER_READ)
    TickLimit,   \* bytes after which a read stops at the next line
    MaxRetries,  \* failures after which a path rests for long (MAX_PATH_RETRIES)
    MaxBytes,    \* bound: bytes of the file
    MaxRefusals, \* bound: reads that Windows refuses
    MaxStarts,   \* bound: restarts
    None

\* A newline, a carriage return, anything else.
Bytes == {"n", "r", "x"}

VARIABLES
    disk,       \* the bytes of the file
    offset,     \* of the cursor: how far complete lines were taken
    discard,    \* of the cursor: how far a long line was skipped, or None
    taken,      \* where the lines end that the parser got
    pc,         \* "idle" or "read"
    start,      \* of the running read: where it began, the size it was told,
    size,       \* how far it is, the end of its last line, the bytes of the
    pos,        \* line it is in, whether it skips that line, the lines it
    committed,  \* found
    line,
    oversize,
    found,
    attempts,   \* failures in a row, of the path
    resting,    \* is the path waiting for its next try?
    refused,    \* was the last scan refused by Windows?
    refusals,   \* refusals so far
    starts      \* restarts so far

cursor == <<offset, discard, taken>>
read == <<start, size, pos, committed, line, oversize, found>>
path == <<attempts, resting, refused, refusals>>
vars == <<disk, cursor, pc, read, path, starts>>

TypeOK ==
    /\ disk \in Seq(Bytes)
    /\ offset \in Nat /\ discard \in Nat \cup {None}
    /\ taken \subseteq Nat
    /\ pc \in {"idle", "read"}
    /\ start \in Nat /\ size \in Nat /\ pos \in Nat /\ committed \in Nat
    /\ line \in 0..MaxLine /\ oversize \in BOOLEAN /\ found \subseteq Nat
    /\ attempts \in 0..MaxRetries /\ resting \in BOOLEAN /\ refused \in BOOLEAN
    /\ refusals \in Nat /\ starts \in Nat

Init ==
    /\ disk = <<>>
    /\ offset = 0 /\ discard = None /\ taken = {}
    /\ pc = "idle"
    /\ start = 0 /\ size = 0 /\ pos = 0 /\ committed = 0
    /\ line = 0 /\ oversize = FALSE /\ found = {}
    /\ attempts = 0 /\ resting = FALSE /\ refused = FALSE
    /\ refusals = 0 /\ starts = 0

-----------------------------------------------------------------------------
\* Another program appends, at any time.
Write ==
    /\ Len(disk) < MaxBytes
    /\ \E b \in Bytes : disk' = Append(disk, b)
    /\ UNCHANGED <<cursor, pc, read, path, starts>>

\* The next try of the path comes due.
Rested ==
    /\ resting
    /\ resting' = FALSE
    /\ UNCHANGED <<disk, cursor, pc, read, attempts, refused, refusals, starts>>

\* A restart: the skipped part of a long line is not saved.
Restart ==
    /\ starts < MaxStarts
    /\ starts' = starts + 1
    /\ pc' = "idle"
    /\ discard' = None
    /\ attempts' = 0 /\ resting' = FALSE /\ refused' = FALSE
    /\ UNCHANGED <<disk, offset, taken, read, refusals>>

\* record_path_failure.
Failure ==
    /\ attempts' = IF attempts = MaxRetries THEN attempts ELSE attempts + 1
    /\ resting' = TRUE

ReadStart == IF discard = None THEN offset ELSE discard

\* scan_file asks for size and identity of the file, or opens it, and Windows
\* refuses.
Refuse ==
    /\ pc = "idle" /\ ~resting
    /\ refusals < MaxRefusals
    /\ refusals' = refusals + 1 /\ refused' = TRUE
    /\ Failure
    /\ UNCHANGED <<disk, cursor, pc, read, starts>>

\* There is nothing new, and the cursor is at the end of the file.
AtEnd ==
    /\ pc = "idle" /\ ~resting
    /\ Len(disk) = offset
    /\ refused' = FALSE
    /\ UNCHANGED <<disk, cursor, pc, read, attempts, resting, refusals, starts>>

\* read_appended finds nothing to read behind the skipped part of a line, which
\* scan_file takes for a file that could not be opened.
NothingNew ==
    /\ pc = "idle" /\ ~resting
    /\ Len(disk) # offset /\ Len(disk) <= ReadStart
    /\ refused' = FALSE
    /\ Failure
    /\ UNCHANGED <<disk, cursor, pc, read, refusals, starts>>

Open ==
    /\ pc = "idle" /\ ~resting
    /\ ReadStart < Len(disk)
    /\ pc' = "read"
    /\ start' = ReadStart /\ pos' = ReadStart /\ size' = Len(disk)
    /\ committed' = offset /\ line' = 0 /\ oversize' = (discard # None)
    /\ found' = {}
    /\ attempts' = 0 /\ refused' = FALSE
    /\ UNCHANGED <<disk, cursor, resting, refusals, starts>>

-----------------------------------------------------------------------------
(***************************************************************************)
(* The loop of read_appended, one byte at a time.                          *)
(***************************************************************************)
Reading == pc = "read" /\ pos < size

\* A line that ends in a carriage return loses it.
Kept == IF line > 0 /\ disk[pos] = "r" THEN line - 1 ELSE line

\* Mutant: the end of a line that was skipped is parsed as a line.
NewlineAlways ==
    /\ Reading /\ disk[pos + 1] = "n"
    /\ found' = IF Kept > 0 \/ oversize THEN found \cup {pos + 1} ELSE found
    /\ pos' = pos + 1 /\ committed' = pos + 1
    /\ line' = 0 /\ oversize' = FALSE
    /\ size' = IF pos + 1 - start >= TickLimit THEN pos + 1 ELSE size
    /\ UNCHANGED <<disk, cursor, pc, start, path, starts>>

\* Having read enough it stops here: the rest of the file is out of reach.
Newline ==
    /\ Reading /\ disk[pos + 1] = "n"
    /\ found' = IF Kept > 0 /\ ~oversize THEN found \cup {pos + 1} ELSE found
    /\ pos' = pos + 1 /\ committed' = pos + 1
    /\ line' = 0 /\ oversize' = FALSE
    /\ size' = IF pos + 1 - start >= TickLimit THEN pos + 1 ELSE size
    /\ UNCHANGED <<disk, cursor, pc, start, path, starts>>

Skip ==
    /\ Reading /\ disk[pos + 1] # "n" /\ oversize
    /\ pos' = pos + 1
    /\ size' = IF pos + 1 - start >= MaxSkip THEN pos + 1 ELSE size
    /\ UNCHANGED <<disk, cursor, pc, start, committed, line, oversize, found,
                   path, starts>>

Collect ==
    /\ Reading /\ disk[pos + 1] # "n" /\ ~oversize
    /\ pos' = pos + 1
    /\ IF line < MaxLine THEN line' = line + 1 /\ UNCHANGED oversize
                         ELSE line' = 0 /\ oversize' = TRUE
    /\ UNCHANGED <<disk, cursor, pc, start, size, committed, found, path, starts>>

\* A read returns less than it should, or fails.
CutShort ==
    /\ Reading
    /\ refusals < MaxRefusals /\ refusals' = refusals + 1
    /\ size' = pos
    /\ UNCHANGED <<disk, cursor, pc, start, pos, committed, line, oversize,
                   found, attempts, resting, refused, starts>>

\* Mutant: a line that was skipped in part is not remembered.
ForgetSkipped ==
    /\ pc = "read" /\ pos = size
    /\ pc' = "idle"
    /\ offset' = committed
    /\ discard' = None
    /\ taken' = taken \cup found
    /\ UNCHANGED <<disk, read, path, starts>>

\* The end of the read: scan_file takes the result over.
Commit ==
    /\ pc = "read" /\ pos = size
    /\ pc' = "idle"
    /\ offset' = committed
    /\ discard' = IF oversize THEN pos ELSE None
    /\ taken' = taken \cup found
    /\ UNCHANGED <<disk, read, path, starts>>

Scan == AtEnd \/ NothingNew \/ Open \/ Newline \/ Skip \/ Collect \/ Commit

Next == Write \/ Rested \/ Restart \/ Refuse \/ CutShort \/ Scan

\* The timer ticks on, and every tick scans files until they are read.
Fairness == WF_vars(Scan) /\ WF_vars(Rested)

Spec == Init /\ [][Next]_vars /\ Fairness

-----------------------------------------------------------------------------
\* Is there a newline in disk[a+1..b]?
Breaks(a, b) == \E i \in a+1..b : disk[i] = "n"

\* Where the line begins that ends at b.
IsLine(a, b) ==
    /\ a < b /\ disk[b] = "n"
    /\ a = 0 \/ disk[a] = "n"
    /\ ~Breaks(a, b - 1)

\* Does a line end at b that the parser should get?
Parsable(b) ==
    \E a \in 0..b-1 :
        /\ IsLine(a, b)
        /\ b - 1 - a \in 1..MaxLine
        /\ ~(b - 1 - a = 1 /\ disk[b - 1] = "r")

\* Behind the offset of the cursor, the parser got each complete line that is
\* neither empty nor too long, and nothing else: no part of a line, no rest of
\* a long one, whatever the reads, refusals and restarts were.
TakenExactly == taken = {b \in 1..offset : Parsable(b)}

\* The offset stands behind a complete line, and what was skipped belongs to
\* one line that is too long.
CursorAtLine ==
    /\ offset <= Len(disk)
    /\ offset = 0 \/ disk[offset] = "n"
    /\ discard # None =>
          /\ offset + MaxLine < discard /\ discard <= Len(disk)
          /\ ~Breaks(offset, discard)

\* When the file stops growing, every complete line is taken: a long line and
\* an unfinished one hold the reader up for a while only.
CaughtUp == <>[](~Breaks(offset, Len(disk)))
=============================================================================
