----------------------------- MODULE MCScanning -----------------------------
(***************************************************************************)
(* What a tick of the usage collector brings in, for TLC: which session    *)
(* file is read when (ScanSchedule, which counts a file in portions), how  *)
(* the lines of one file are taken (LogReader, which counts it in bytes)   *)
(* and the limits that are fetched (RemoteFetch).  The three share no      *)
(* state: a behaviour is of one of them, the others stay where they began. *)
(***************************************************************************)
EXTENDS MCScanSchedule, RemoteFetch

CONSTANTS MaxLine, MaxSkip, TickLimit, MaxFailures, MaxBytes, MaxRefused, MaxStarts

ASSUME ReaderAssumption == MaxLine \in Nat /\ MaxFailures \in Nat /\ None \notin Nat

VARIABLES view,       \* the module this behaviour is of
          bytes, offset, discard, taken, step, start, told, pos, committed, line,
          oversize, found, failures, resting, refused, refusedReads, starts

readerVars == <<bytes, offset, discard, taken, step, start, told, pos, committed, line,
                oversize, found, failures, resting, refused, refusedReads, starts>>
scanningVars == <<view, vars, readerVars, fetchVars>>

Reader == INSTANCE LogReader WITH
    MaxRetries <- MaxFailures, MaxRefusals <- MaxRefused,
    disk <- bytes, pc <- step, size <- told, attempts <- failures,
    refusals <- refusedReads

OfSchedule(A) == view = "schedule" /\ A /\ UNCHANGED <<view, readerVars, fetchVars>>
OfReader(A) == view = "reader" /\ A /\ UNCHANGED <<view, vars, fetchVars>>
OfFetch(A) == view = "fetch" /\ A /\ UNCHANGED <<view, vars, readerVars>>

ScanningInit ==
    view \in {"schedule", "reader", "fetch"} /\ Init /\ Reader!Init /\ FetchInit
ScanningNext == OfSchedule(Next) \/ OfReader(Reader!Next) \/ OfFetch(FetchNext)

\* The fairness of the three modules, each on its own behaviours: the usage timer is
\* armed again after every tick, which goes through all providers, and requests time
\* out.  Some worker takes its next step; each of them does, as a request has few.
ScanningSpec ==
    /\ ScanningInit /\ [][ScanningNext]_scanningVars
    /\ WF_scanningVars(OfSchedule(InTick)) /\ SF_scanningVars(OfSchedule(BeginTick("minute")))
    /\ WF_scanningVars(OfReader(Reader!Scan)) /\ WF_scanningVars(OfReader(Reader!Rested))
    /\ WF_scanningVars(OfFetch(Tick)) /\ WF_scanningVars(OfFetch(\E p \in Slots : Visit(p)))
    /\ WF_scanningVars(OfFetch(\E p \in Slots, g \in Generations : Work(p, g)))
-----------------------------------------------------------------------------
\* The recent files in the two queues are counted right, and a file with unread
\* bytes is not forgotten, however often Windows refused it (queue_registration,
\* restat): see ScanSchedule.
QueuesTrue == view = "schedule" => TypeOK /\ CountsDelimit /\ NothingForgotten

\* The catch-up comes to an end, and when nothing is written any more, every file
\* but a new one that was given up is found and read to its end: budgets, the
\* order of the queues and refusals, also a rest after three of them, delay it
\* only (scan_tick, finish_catch_up).
AllRead == view = "schedule" => CatchUpEnds /\ ReadOrGivenUp

\* Behind the offset of the cursor, the parser got exactly the complete lines
\* that are neither empty nor too long, and the offset is at the start of a line
\* (read_new_lines): see LogReader.
TakenExactly == Reader!TypeOK /\ Reader!TakenExactly /\ Reader!CursorAtLine

\* When the file stops growing, every complete line is taken: see LogReader.
CaughtUp == Reader!CaughtUp
=============================================================================
